---- MODULE Spec2Model ----
(***************************************************************************)
(* Model of seri: the event grammar (src/event.rs, Event::from_str), the   *)
(* event types and the short texts of an event (Type, cut_text,            *)
(* short_text), the timetable parser (src/passes/parser.rs), the bounding  *)
(* box of a list of events (find_bounding_box), the passes that render a   *)
(* list of events (src/passes/tikz.rs, abstex.rs, html.rs), the latexmk    *)
(* pass (src/passes/latexmk.rs) and the compositions of src/main.rs.       *)
(*                                                                         *)
(* Text is a sequence of one-character strings.  A DateTime<Local> is a    *)
(* record of its calendar fields; the local timezone is taken to have a    *)
(* fixed offset (no daylight-saving gap), and every date-time the parser   *)
(* builds has zero seconds, so the fields year..minute determine it.       *)
(* Option<T> is a sequence of length at most one: None is << >> and        *)
(* Some(v) is <<v>>.                                                       *)
(***************************************************************************)
EXTENDS Integers, Sequences, FiniteSets, TLC

VARIABLES
    pc,         \* position of the run: which operation comes next
    events,     \* the Vec<Event> handed to find_bounding_box
    bb,         \* result of find_bounding_box: Option<BoundingBox>
    days,       \* outcome of BoundingBox::nb_days
    written,    \* the lines the block was written from (what the author meant)
    block,      \* the text handed to Event::from_str
    parsed,     \* result of Event::from_str: Result<Event, ParsingError>
    document,   \* the text handed to ParseTimetable::apply
    blocks,     \* the pieces s.split("---") yields
    timetable,  \* result of ParseTimetable::apply
    talk_type,  \* the Type that is displayed, or that a token is written for
    token,      \* the text handed to Type::from_str
    typed,      \* result of Type::from_str: Result<Type, InvalidTalkType>
    long_text,  \* the text handed to cut_text
    length,     \* the length handed to cut_text
    cut,        \* result of cut_text
    event,      \* the Event whose short_text is asked for
    short,      \* result of Event::short_text
    driver,     \* the generate_* function of main.rs that runs
    options,    \* the options handed to the passes
    world,      \* what the passes meet outside the program: files, latexmk
    calls,      \* the passes called so far, in order
    residual,   \* what the last pass returned to the chain
    outcome,    \* what the generate_* function returned
    pass,       \* the pass that apply and apply_with are called on
    data,       \* the data handed to both
    applied,    \* result of P::apply(data)
    applied_with \* result of P::apply_with(data, options)

boxVars == <<events, bb, days>>

eventVars == <<written, block, parsed>>

docVars == <<document, blocks, timetable>>

typeVars == <<talk_type, token, typed>>

cutVars == <<long_text, length, cut>>

shortVars == <<event, short>>

driverVars == <<driver, calls, residual, outcome>>

passVars == <<pass, data, applied, applied_with>>

worldVars == <<options, world>>

pureVars == <<typeVars, cutVars, shortVars>>

stageVars == <<driverVars, passVars, worldVars>>

vars == <<pc, boxVars, eventVars, docVars, pureVars, stageVars>>

(***************************************************************************)
(* Option                                                                  *)
(***************************************************************************)
None == << >>

Some(v) == <<v>>

IsSome(o) == Len(o) = 1

Unwrap(o) == o[1]

(***************************************************************************)
(* Calendar (chrono): dates of the proleptic Gregorian calendar.           *)
(***************************************************************************)
IsLeap(y) == (y % 4 = 0 /\ y % 100 # 0) \/ y % 400 = 0

DaysInMonth(y, m) ==
    IF m = 2 THEN (IF IsLeap(y) THEN 29 ELSE 28)
    ELSE IF m \in {4, 6, 9, 11} THEN 30 ELSE 31

ValidDate(y, m, d) ==
    /\ m \in 1..12
    /\ d >= 1
    /\ d <= DaysInMonth(y, m)

\* Number of the calendar day (y, m, d), counted from a fixed origin.
DayNumber(y, m, d) ==
    LET yy  == IF m <= 2 THEN y - 1 ELSE y
        era == yy \div 400
        yoe == yy - era * 400
        mp  == IF m > 2 THEN m - 3 ELSE m + 9
        doy == (153 * mp + 2) \div 5 + d - 1
        doe == yoe * 365 + yoe \div 4 - yoe \div 100 + doy
    IN  era * 146097 + doe

\* The calendar day with number z: the inverse of DayNumber.
DateOfDayNumber(z) ==
    LET era == z \div 146097
        doe == z - era * 146097
        yoe == (doe - doe \div 1460 + doe \div 36524 - doe \div 146096) \div 365
        doy == doe - (365 * yoe + yoe \div 4 - yoe \div 100)
        mp  == (5 * doy + 2) \div 153
        d   == doy - (153 * mp + 2) \div 5 + 1
        m   == IF mp < 10 THEN mp + 3 ELSE mp - 9
        y   == yoe + era * 400 + (IF m <= 2 THEN 1 ELSE 0)
    IN  [year |-> y, month |-> m, day |-> d]

DateTime(y, m, d, h, mi) ==
    [year |-> y, month |-> m, day |-> d, hour |-> h, minute |-> mi]

\* DateTime::date_naive, as the number of its calendar day.
date_naive(dt) == DayNumber(dt.year, dt.month, dt.day)

\* DateTime::time, as the minute of the day.
time(dt) == dt.hour * 60 + dt.minute

\* The instant of a date-time, in minutes.
Instant(dt) == date_naive(dt) * 1440 + time(dt)

\* DateTime + Duration::minutes(n).
AddMinutes(dt, n) ==
    LET t == Instant(dt) + n
        d == DateOfDayNumber(t \div 1440)
        r == t % 1440
    IN  DateTime(d.year, d.month, d.day, r \div 60, r % 60)

\* Timelike::with_hour / with_minute and Datelike::with_day / with_month /
\* with_year: None when the resulting date-time does not exist.
with_hour(dt, h) == IF h \in 0..23 THEN Some([dt EXCEPT !.hour = h]) ELSE None

with_minute(dt, mi) ==
    IF mi \in 0..59 THEN Some([dt EXCEPT !.minute = mi]) ELSE None

with_day(dt, d) ==
    IF ValidDate(dt.year, dt.month, d) THEN Some([dt EXCEPT !.day = d]) ELSE None

with_month(dt, m) ==
    IF ValidDate(dt.year, m, dt.day) THEN Some([dt EXCEPT !.month = m]) ELSE None

with_year(dt, y) ==
    IF ValidDate(y, dt.month, dt.day) THEN Some([dt EXCEPT !.year = y]) ELSE None

(***************************************************************************)
(* BoundingBox (src/event.rs)                                              *)
(***************************************************************************)
\* std::cmp::Ord::cmp on two numbers.
Cmp(a, b) == IF a < b THEN "Less" ELSE IF a > b THEN "Greater" ELSE "Equal"

\* The first `if` of BoundingBox::boundary: take the time of day of
\* `second`; a `?` that meets None ends the function with None.
boundary_time(order, first, second) ==
    IF Cmp(time(second), time(first)) = order
    THEN LET h == with_hour(first, second.hour)
         IN  IF IsSome(h) THEN with_minute(h[1], second.minute) ELSE None
    ELSE Some(first)

\* The second `if` of BoundingBox::boundary: take the date of `second`, one
\* field at a time, day first.
boundary_date(order, first, second, res) ==
    IF Cmp(date_naive(second), date_naive(first)) = order
    THEN LET d == with_day(res, second.day)
             m == IF IsSome(d) THEN with_month(d[1], second.month) ELSE None
         IN  IF IsSome(m) THEN with_year(m[1], second.year) ELSE None
    ELSE Some(res)

boundary(order, first, second) ==
    LET res == boundary_time(order, first, second)
    IN  IF IsSome(res) THEN boundary_date(order, first, second, res[1]) ELSE None

\* A variant of top_left_boundary that takes the earlier of the two as
\* instants, date and time together.
top_left_boundary_of_instants(first, second) ==
    IF Instant(second) < Instant(first) THEN Some(second) ELSE Some(first)

top_left_boundary(first, second) == boundary("Less", first, second)

\* A variant of bottom_right_boundary that folds with the order of the
\* top-left corner.
bottom_right_boundary_less(first, second) == boundary("Less", first, second)

bottom_right_boundary(first, second) == boundary("Greater", first, second)

BoundingBox(ul, dr) == [up_left |-> ul, down_right |-> dr]

\* A variant of `end_of_event` that leaves the duration out.
end_of_event_without_duration(e) == e.start_date

\* `end_of_event` in find_bounding_box.
end_of_event(e) == AddMinutes(e.start_date, e.duration)

\* The loop of find_bounding_box from event number i on, with the corners
\* reached so far; a `?` that meets None ends the function with None.
RECURSIVE bounding_loop(_, _, _, _)
bounding_loop(evs, i, up_left, down_right) ==
    IF i > Len(evs) THEN Some(BoundingBox(up_left, down_right))
    ELSE LET ul == top_left_boundary(up_left, evs[i].start_date)
             dr == bottom_right_boundary(down_right, end_of_event(evs[i]))
         IN  IF ~IsSome(ul) THEN None
             ELSE IF ~IsSome(dr) THEN None
             ELSE bounding_loop(evs, i + 1, Unwrap(ul), Unwrap(dr))

\* A variant of find_bounding_box that answers the empty list with a box
\* of no extent.
find_bounding_box_degenerate(evs) ==
    IF Len(evs) = 0
    THEN Some(BoundingBox(DateTime(1970, 1, 1, 0, 0), DateTime(1970, 1, 1, 0, 0)))
    ELSE bounding_loop(evs, 1, evs[1].start_date, evs[1].start_date)

find_bounding_box(evs) ==
    IF Len(evs) = 0 THEN None
    ELSE bounding_loop(evs, 1, evs[1].start_date, evs[1].start_date)

\* BoundingBox::first_day / last_day: the corner's day at 00:00.
first_day(box) ==
    LET dt == with_hour(box.up_left, 0)
    IN  IF IsSome(dt) THEN with_minute(dt[1], 0) ELSE None

last_day(box) ==
    LET dt == with_hour(box.down_right, 0)
    IN  IF IsSome(dt) THEN with_minute(dt[1], 0) ELSE None

\* BoundingBox::nb_days: u32 arithmetic on the two days of the month.  A
\* u32 is kept as its two 16-bit halves, hi * 65536 + lo.  When the
\* subtraction leaves the u32 range, a build with overflow checks panics and
\* a build without them wraps modulo 2^32 (and so does the addition that
\* follows, when the difference wrapped to 2^32 - 1); both outcomes are kept.
Panicked == [panic |-> TRUE, hi |-> 0, lo |-> 0]

Returned(v) == [panic |-> FALSE, hi |-> v \div 65536, lo |-> v % 65536]

nb_days(box) ==
    LET duration == box.down_right.day - box.up_left.day
    IN  IF duration >= 0 THEN {Returned(duration + 1)}
        ELSE IF duration = -1 THEN {Panicked, Returned(0)}
        ELSE {Panicked, [panic |-> FALSE, hi |-> 65535,
                         lo |-> 65536 + duration + 1]}

(***************************************************************************)
(* Text (std::str)                                                         *)
(***************************************************************************)
Result_Ok(v) == [ok |-> TRUE, val |-> v]

Result_Err(e) == [ok |-> FALSE, err |-> e]

\* char::is_whitespace, on the characters the inputs use.
IsWhite(c) == c \in {" ", "\n", "\t", "\r"}

RECURSIVE SkipWhite(_, _)
SkipWhite(s, i) ==
    IF i > Len(s) THEN i
    ELSE IF IsWhite(s[i]) THEN SkipWhite(s, i + 1) ELSE i

RECURSIVE SkipWhiteBack(_, _)
SkipWhiteBack(s, i) ==
    IF i < 1 THEN i
    ELSE IF IsWhite(s[i]) THEN SkipWhiteBack(s, i - 1) ELSE i

\* str::trim_start and str::trim.
trim_start(s) == SubSeq(s, SkipWhite(s, 1), Len(s))

trim(s) == SubSeq(s, SkipWhite(s, 1), SkipWhiteBack(s, Len(s)))

\* str::starts_with, from position i of s.
StartsWithAt(s, pat, i) ==
    /\ i + Len(pat) - 1 <= Len(s)
    /\ \A k \in 1..Len(pat) : s[i + k - 1] = pat[k]

\* str::find from position i on: the position of the first occurrence of
\* pat at or after i, 0 when there is none.
FindFrom(s, pat, i) ==
    LET at == {j \in i..(Len(s) - Len(pat) + 1) : StartsWithAt(s, pat, j)}
    IN  IF at = {} THEN 0 ELSE CHOOSE j \in at : \A k \in at : j <= k

find(s, pat) == FindFrom(s, pat, 1)

\* str::split: the pieces between the successive non-overlapping
\* occurrences of pat, scanning from the left.
RECURSIVE SplitFrom(_, _, _)
SplitFrom(s, pat, i) ==
    LET j == FindFrom(s, pat, i)
    IN  IF j = 0 THEN <<SubSeq(s, i, Len(s))>>
        ELSE <<SubSeq(s, i, j - 1)>> \o SplitFrom(s, pat, j + Len(pat))

split(s, pat) == SplitFrom(s, pat, 1)

\* str::split_once: None, or Some(<<before, after>>) at the first occurrence.
split_once(s, pat) ==
    LET j == find(s, pat)
    IN  IF j = 0 THEN None
        ELSE Some(<<SubSeq(s, 1, j - 1), SubSeq(s, j + Len(pat), Len(s))>>)

UpperCase == <<"A", "B", "C", "D", "E", "F", "G", "H", "I", "J", "K", "L", "M",
               "N", "O", "P", "Q", "R", "S", "T", "U", "V", "W", "X", "Y", "Z">>

LowerCase == <<"a", "b", "c", "d", "e", "f", "g", "h", "i", "j", "k", "l", "m",
               "n", "o", "p", "q", "r", "s", "t", "u", "v", "w", "x", "y", "z">>

Digits == <<"0", "1", "2", "3", "4", "5", "6", "7", "8", "9">>

IndexIn(tbl, c) ==
    IF \E i \in 1..Len(tbl) : tbl[i] = c
    THEN CHOOSE i \in 1..Len(tbl) : tbl[i] = c
    ELSE 0

\* str::to_lowercase.
to_lowercase(s) ==
    [i \in 1..Len(s) |->
        IF IndexIn(UpperCase, s[i]) # 0 THEN LowerCase[IndexIn(UpperCase, s[i])]
        ELSE s[i]]

IsDigit(c) == IndexIn(Digits, c) # 0

DigitValue(c) == IndexIn(Digits, c) - 1

\* The number written by the digits s[i..j].
RECURSIVE NumberOf(_, _, _)
NumberOf(s, i, j) ==
    IF j < i THEN 0 ELSE NumberOf(s, i, j - 1) * 10 + DigitValue(s[j])

\* The position after the run of digits that starts at i, at most max long.
RECURSIVE DigitsEnd(_, _, _)
DigitsEnd(s, i, max) ==
    IF max = 0 \/ i > Len(s) THEN i
    ELSE IF IsDigit(s[i]) THEN DigitsEnd(s, i + 1, max - 1) ELSE i

\* The first position at or after i that holds no "0", at most Len(s).
RECURSIVE SkipZeros(_, _)
SkipZeros(s, i) ==
    IF i >= Len(s) THEN i
    ELSE IF s[i] = "0" THEN SkipZeros(s, i + 1) ELSE i

U32MaxDigits == <<"4", "2", "9", "4", "9", "6", "7", "2", "9", "5">>

\* Whether the ten digits s[i..i+9] write a number above u32::MAX.
RECURSIVE AboveU32Max(_, _, _)
AboveU32Max(s, i, k) ==
    IF k > 10 THEN FALSE
    ELSE IF DigitValue(s[i + k - 1]) > DigitValue(U32MaxDigits[k]) THEN TRUE
    ELSE IF DigitValue(s[i + k - 1]) < DigitValue(U32MaxDigits[k]) THEN FALSE
    ELSE AboveU32Max(s, i, k + 1)

\* <u32 as FromStr>::from_str: an optional `+`, then decimal digits only,
\* the value within the u32 range.  The error names its IntErrorKind.
parse_u32(s) ==
    LET from == IF Len(s) > 0 /\ s[1] = "+" THEN 2 ELSE 1
        sig  == SkipZeros(s, from)
    IN  IF Len(s) = 0 THEN Result_Err(<<"Empty">>)
        ELSE IF from > Len(s) THEN Result_Err(<<"InvalidDigit">>)
        ELSE IF \E i \in from..Len(s) : ~IsDigit(s[i])
             THEN Result_Err(<<"InvalidDigit">>)
        ELSE IF Len(s) - sig + 1 > 10 THEN Result_Err(<<"PosOverflow">>)
        ELSE IF Len(s) - sig + 1 = 10 /\ AboveU32Max(s, sig, 1)
             THEN Result_Err(<<"PosOverflow">>)
        ELSE Result_Ok(NumberOf(s, sig, Len(s)))

(***************************************************************************)
(* Local.datetime_from_str(value, "%Y-%m-%d %H:%M") (chrono): the items of *)
(* the format are matched from the left; a number takes the digits that    *)
(* are there, up to its width (a year with a sign takes them all), a       *)
(* literal must be there, the space takes any whitespace, nothing may be   *)
(* left over, and the fields must name an existing date and time.          *)
(***************************************************************************)
ScanNumber(s, i, max) ==
    LET e == DigitsEnd(s, i, max)
    IN  IF e = i THEN None ELSE Some([value |-> NumberOf(s, i, e - 1), next |-> e])

\* A number that may carry a sign (the year).
ScanSigned(s, i, max) ==
    IF i <= Len(s) /\ s[i] = "-"
    THEN LET n == ScanNumber(s, i + 1, Len(s))
         IN  IF IsSome(n) THEN Some([n[1] EXCEPT !.value = 0 - n[1].value]) ELSE None
    ELSE IF i <= Len(s) /\ s[i] = "+" THEN ScanNumber(s, i + 1, Len(s))
    ELSE ScanNumber(s, i, max)

FmtNum(w, sg) == [item |-> "number", width |-> w, signed |-> sg, lit |-> " "]

FmtLit(c) == [item |-> "literal", width |-> 0, signed |-> FALSE, lit |-> c]

FmtSpace == [item |-> "space", width |-> 0, signed |-> FALSE, lit |-> " "]

\* The items of "%Y-%m-%d %H:%M".
DateFormat ==
    <<FmtNum(4, TRUE), FmtLit("-"), FmtNum(2, FALSE), FmtLit("-"),
      FmtNum(2, FALSE), FmtSpace, FmtNum(2, FALSE), FmtLit(":"),
      FmtNum(2, FALSE)>>

\* Match the items from number k on against s from position i on; fields
\* are the numbers read so far.  None when an item does not match or text
\* is left over.
RECURSIVE parse_items(_, _, _, _)
parse_items(s, i, k, fields) ==
    IF k > Len(DateFormat)
    THEN (IF i = Len(s) + 1 THEN Some(fields) ELSE None)
    ELSE IF DateFormat[k].item = "literal"
    THEN (IF i <= Len(s) /\ s[i] = DateFormat[k].lit
          THEN parse_items(s, i + 1, k + 1, fields)
          ELSE None)
    ELSE IF DateFormat[k].item = "space"
    THEN parse_items(s, SkipWhite(s, i), k + 1, fields)
    ELSE LET n == IF DateFormat[k].signed
                  THEN ScanSigned(s, i, DateFormat[k].width)
                  ELSE ScanNumber(s, i, DateFormat[k].width)
         IN  IF IsSome(n)
             THEN parse_items(s, n[1].next, k + 1, Append(fields, n[1].value))
             ELSE None

\* A variant of datetime_of_fields that does not ask whether the day
\* exists in its month.
datetime_of_fields_unchecked(f) ==
    IF f[2] \in 1..12 /\ f[3] \in 1..31 /\ f[4] <= 23 /\ f[5] <= 59
    THEN Some(DateTime(f[1], f[2], f[3], f[4], f[5]))
    ELSE None

\* The date-time of the fields <<year, month, day, hour, minute>>, when
\* there is one.
datetime_of_fields(f) ==
    IF ValidDate(f[1], f[2], f[3]) /\ f[4] <= 23 /\ f[5] <= 59
    THEN Some(DateTime(f[1], f[2], f[3], f[4], f[5]))
    ELSE None

datetime_from_str(s) ==
    LET fields == parse_items(s, 1, 1, << >>)
    IN  IF IsSome(fields) THEN datetime_of_fields(fields[1]) ELSE None

(***************************************************************************)
(* Type (src/event.rs)                                                     *)
(***************************************************************************)
Talk == "Talk"

Meal == "Meal"

Break == "Break"

Fun == "Fun"

Transport == "Transport"

Types == {Talk, Meal, Break, Fun, Transport}

\* A variant of Type::from_str that compares the token as it is written.
Type_from_str_exact(input) ==
    IF input = <<"t", "a", "l", "k">> THEN Result_Ok(Talk)
    ELSE IF input = <<"m", "e", "a", "l">> THEN Result_Ok(Meal)
    ELSE IF input = <<"b", "r", "e", "a", "k">> THEN Result_Ok(Break)
    ELSE IF input = <<"f", "u", "n">> THEN Result_Ok(Fun)
    ELSE IF input = <<"t", "r", "a", "n", "s", "p", "o", "r", "t">>
         THEN Result_Ok(Transport)
    ELSE Result_Err([kind |-> "InvalidTalkType", arg |-> input])

\* impl FromStr for Type.
Type_from_str(input) ==
    LET tt == to_lowercase(input)
    IN  IF tt = <<"t", "a", "l", "k">> THEN Result_Ok(Talk)
        ELSE IF tt = <<"m", "e", "a", "l">> THEN Result_Ok(Meal)
        ELSE IF tt = <<"b", "r", "e", "a", "k">> THEN Result_Ok(Break)
        ELSE IF tt = <<"f", "u", "n">> THEN Result_Ok(Fun)
        ELSE IF tt = <<"t", "r", "a", "n", "s", "p", "o", "r", "t">>
             THEN Result_Ok(Transport)
        ELSE Result_Err([kind |-> "InvalidTalkType", arg |-> tt])

\* impl fmt::Display for Type.
Type_display(tp) ==
    IF tp = Talk THEN <<"t", "a", "l", "k">>
    ELSE IF tp = Meal THEN <<"m", "e", "a", "l">>
    ELSE IF tp = Break THEN <<"b", "r", "e", "a", "k">>
    ELSE IF tp = Fun THEN <<"f", "u", "n">>
    ELSE <<"t", "r", "a", "n", "s", "p", "o", "r", "t">>

(***************************************************************************)
(* cut_text, short_title, short_text (src/event.rs).  A text is counted    *)
(* and cut in chars, one element of the sequence each.                     *)
(***************************************************************************)
Ellipsis == <<".", ".", ".">>

\* fn cut_text(text: &str, length: usize) -> String.
cut_text(txt, len) ==
    IF Len(txt) <= len THEN txt
    ELSE (IF len > 3 THEN SubSeq(txt, 1, len - 3) ELSE SubSeq(txt, 1, len))
         \o Ellipsis

\* The length short_text cuts a title to.
ShortLength == 30

\* Event::short_title.
short_title(e, len) == cut_text(e.title, len)

\* A variant of short_text that applies the speakers policy to every type.
short_text_of_any_type(e) ==
    IF Len(e.speakers) = 0 THEN short_title(e, ShortLength)
    ELSE IF Len(e.speakers) = 1 THEN e.speakers[1]
    ELSE IF Len(e.speakers) = 2
         THEN e.speakers[1] \o <<" ", "a", "n", "d", " ">> \o e.speakers[2]
    ELSE e.speakers[1] \o <<" ", "e", "t", "~", "a", "l", ".">>

\* Event::short_text.
short_text(e) ==
    IF e.event_type = Talk
    THEN (IF Len(e.speakers) = 0 THEN short_title(e, ShortLength)
          ELSE IF Len(e.speakers) = 1 THEN e.speakers[1]
          ELSE IF Len(e.speakers) = 2
               THEN e.speakers[1] \o <<" ", "a", "n", "d", " ">> \o e.speakers[2]
          ELSE e.speakers[1] \o <<" ", "e", "t", "~", "a", "l", ".">>)
    ELSE short_title(e, ShortLength)

(***************************************************************************)
(* Event (src/event.rs)                                                    *)
(***************************************************************************)
KeyType == <<"t", "y", "p", "e">>

KeyLang == <<"l", "a", "n", "g">>

KeyTitle == <<"t", "i", "t", "l", "e">>

KeyDate == <<"d", "a", "t", "e">>

KeyDuration == <<"d", "u", "r", "a", "t", "i", "o", "n">>

KeySpeakers == <<"s", "p", "e", "a", "k", "e", "r", "s">>

NoTitle == <<"(", "n", "o", " ", "t", "i", "t", "l", "e", ")">>

\* A variant of split_pair whose error carries the line trimmed.
split_pair_trimmed(line) ==
    LET pos == find(line, <<":">>)
    IN  IF pos = 0 THEN Result_Err([kind |-> "InvalidField", arg |-> trim(line)])
        ELSE Result_Ok(<<SubSeq(line, 1, pos - 1),
                         trim(SubSeq(line, pos + 1, Len(line)))>>)

\* A variant of split_pair that cuts the line at its last colon.
split_pair_last_colon(line) ==
    LET at  == {i \in 1..Len(line) : line[i] = ":"}
        pos == IF at = {} THEN 0 ELSE CHOOSE i \in at : \A j \in at : j <= i
    IN  IF pos = 0 THEN Result_Err([kind |-> "InvalidField", arg |-> line])
        ELSE Result_Ok(<<SubSeq(line, 1, pos - 1),
                         trim(SubSeq(line, pos + 1, Len(line)))>>)

\* One line of the header in split_pairs: the line is cut at its first
\* colon; the value is what follows the colon, trimmed.
split_pair(line) ==
    LET pos == find(line, <<":">>)
    IN  IF pos = 0 THEN Result_Err([kind |-> "InvalidField", arg |-> line])
        ELSE Result_Ok(<<SubSeq(line, 1, pos - 1),
                         trim(SubSeq(line, pos + 1, Len(line)))>>)

\* split_pairs: the pairs of the lines of the header, in line order, or the
\* error of the first line that has none (collect stops at the first Err).
RECURSIVE collect_pairs(_, _)
collect_pairs(lines, i) ==
    IF i > Len(lines) THEN Result_Ok(<< >>)
    ELSE LET field == split_pair(lines[i])
             rest  == collect_pairs(lines, i + 1)
         IN  IF ~field.ok THEN field
             ELSE IF ~rest.ok THEN rest
             ELSE Result_Ok(<<field.val>> \o rest.val)

split_pairs(string) == collect_pairs(split(string, <<"\n">>), 1)

\* A variant of settings_get on a map that keeps the first value of a key.
settings_get_first(pairs, key) ==
    LET at == {i \in 1..Len(pairs) : pairs[i][1] = key}
    IN  IF at = {} THEN None
        ELSE Some(pairs[CHOOSE i \in at : \A j \in at : i <= j][2])

\* HashMap::get on the map collected from the pairs: an insertion replaces
\* the value of a key already there, so the last pair of a key is its entry.
settings_get(pairs, key) ==
    LET at == {i \in 1..Len(pairs) : pairs[i][1] = key}
    IN  IF at = {} THEN None
        ELSE Some(pairs[CHOOSE i \in at : \A j \in at : j <= i][2])

\* Language::from_639_1, on the codes the inputs use.
Iso639_1 == {<<"e", "n">>, <<"f", "r">>}

from_639_1(code) == IF code \in Iso639_1 THEN Some(code) ELSE None

\* l.replace(['[', ']'], "").
RECURSIVE strip_brackets(_)
strip_brackets(s) ==
    IF Len(s) = 0 THEN << >>
    ELSE IF s[1] \in {"[", "]"} THEN strip_brackets(Tail(s))
    ELSE <<s[1]>> \o strip_brackets(Tail(s))

\* A variant of trimmed_nonempty that keeps the empty entries.
trimmed_all(parts) == [i \in 1..Len(parts) |-> trim(parts[i])]

\* .map(|s| s.trim().to_owned()).filter(|s| !s.is_empty()).collect()
RECURSIVE trimmed_nonempty(_)
trimmed_nonempty(parts) ==
    IF Len(parts) = 0 THEN << >>
    ELSE IF Len(trim(parts[1])) = 0 THEN trimmed_nonempty(Tail(parts))
    ELSE <<trim(parts[1])>> \o trimmed_nonempty(Tail(parts))

parse_speakers(l) == trimmed_nonempty(split(strip_brackets(l), <<",">>))

\* The head of Event::from_str: the block trimmed and cut at its first
\* empty line into the header and the description.
split_header(s) ==
    LET trimmed == trim(s)
        split_result == split_once(trimmed, <<"\n", "\n">>)
    IN  IF IsSome(split_result)
        THEN LET text == trim(split_result[1][2])
             IN  [header |-> trim(split_result[1][1]),
                  description |-> IF Len(text) # 0 THEN Some(text) ELSE None]
        ELSE [header |-> trimmed, description |-> None]

SettingNotFound(name) == [kind |-> "SettingNotFound", arg |-> name]

\* The start_date step of Event::from_str.
date_of_setting(datetime) ==
    LET d == datetime_from_str(datetime)
    IN  IF IsSome(d) THEN Result_Ok(d[1])
        ELSE Result_Err([kind |-> "InvalidDateShape", arg |-> datetime])

parse_start_date(settings) ==
    LET v == settings_get(settings, KeyDate)
    IN  IF IsSome(v) THEN date_of_setting(v[1])
        ELSE Result_Err(SettingNotFound(KeyDate))

\* The duration step of Event::from_str.
duration_of_setting(duration_setting) ==
    LET n == parse_u32(duration_setting)
    IN  IF n.ok THEN n
        ELSE Result_Err([kind |-> "CouldNotParseDuration", arg |-> n.err])

parse_duration(settings) ==
    LET v == settings_get(settings, KeyDuration)
    IN  IF IsSome(v) THEN duration_of_setting(v[1])
        ELSE Result_Err(SettingNotFound(KeyDuration))

\* A variant of parse_event_type that falls back to Talk on a token that
\* names no type.
parse_event_type_defaulting(settings) ==
    LET v == settings_get(settings, KeyType)
        t == IF IsSome(v) THEN Type_from_str(v[1]) ELSE Result_Ok(Talk)
    IN  IF t.ok THEN t ELSE Result_Ok(Talk)

\* The event_type step of Event::from_str.
parse_event_type(settings) ==
    LET v == settings_get(settings, KeyType)
    IN  IF IsSome(v) THEN Type_from_str(v[1]) ELSE Result_Ok(Talk)

\* The description step of Event::from_str: trimmed again, None when empty.
nonempty_description(description) ==
    IF IsSome(description) /\ Len(trim(description[1])) # 0
    THEN Some(trim(description[1]))
    ELSE None

\* impl FromStr for Event: the steps in the order of the code, each `?`
\* returning the first error met.  event_of_fields is the end of the
\* function, from the `?` on the event type on, with the settings read.
event_of_fields(event_type, start_date, duration, settings, description) ==
    IF ~event_type.ok THEN event_type
    ELSE IF ~start_date.ok THEN start_date
    ELSE IF ~duration.ok THEN duration
    ELSE Result_Ok([event_type  |-> event_type.val,
                    start_date  |-> start_date.val,
                    duration    |-> duration.val,
                    title       |-> LET e == settings_get(settings, KeyTitle)
                                    IN  IF IsSome(e) THEN e[1] ELSE NoTitle,
                    description |-> nonempty_description(description),
                    language    |-> LET l == settings_get(settings, KeyLang)
                                    IN  IF IsSome(l) THEN from_639_1(l[1]) ELSE None,
                    speakers    |-> LET l == settings_get(settings, KeySpeakers)
                                    IN  IF IsSome(l) THEN parse_speakers(l[1])
                                        ELSE << >>])

\* From `split_pairs(header)?` on.
event_of_settings(settings, description) ==
    IF ~settings.ok THEN settings
    ELSE event_of_fields(parse_event_type(settings.val),
                         parse_start_date(settings.val),
                         parse_duration(settings.val),
                         settings.val, description)

event_of_header(hd) == event_of_settings(split_pairs(hd.header), hd.description)

Event_from_str(s) == event_of_header(split_header(s))

(***************************************************************************)
(* ParseTimetable (src/passes/parser.rs)                                   *)
(***************************************************************************)
Delimiter == <<"-", "-", "-">>

\* .map(Event::from_str).collect() into a Result: the events in order, or
\* the error of the first piece that does not parse.
collect_rest(ev, rest) ==
    IF ~rest.ok THEN rest ELSE Result_Ok(<<ev.val>> \o rest.val)

RECURSIVE collect_events(_, _)
\* A variant of the collection that leaves out the pieces that do not
\* parse (filter_map in place of map).
collect_event_skipping(ev, pieces, i) ==
    IF ~ev.ok THEN collect_events(pieces, i + 1)
    ELSE collect_rest(ev, collect_events(pieces, i + 1))

collect_event(ev, pieces, i) ==
    IF ~ev.ok THEN ev ELSE collect_rest(ev, collect_events(pieces, i + 1))

collect_events(pieces, i) ==
    IF i > Len(pieces) THEN Result_Ok(<< >>)
    ELSE collect_event(Event_from_str(pieces[i]), pieces, i)

\* ParseTimetable::apply.
ParseTimetable_apply(s) == collect_events(split(s, Delimiter), 1)

(***************************************************************************)
(* templating (src/templating.rs).  A template is kept as its name, the    *)
(* keys of the `{{ KEY }}` slots it still holds and the replacements made  *)
(* so far, in order.                                                       *)
(***************************************************************************)
KeyCalendar == <<"C", "A", "L", "E", "N", "D", "A", "R">>

KeyBeginDate == <<"B", "E", "G", "I", "N", "_", "D", "A", "T", "E">>

KeyEndDate == <<"E", "N", "D", "_", "D", "A", "T", "E">>

KeyAbstracts == <<"A", "B", "S", "T", "R", "A", "C", "T", "S">>

Template(name, slots) == [name |-> name, slots |-> slots, fills |-> << >>]

\* [[:word:]]: a letter, a digit or the underscore.
IsWord(c) ==
    IndexIn(UpperCase, c) # 0 \/ IndexIn(LowerCase, c) # 0 \/ IsDigit(c) \/ c = "_"

\* validate_key: ^[[:word:]]+$.
validate_key(key) == Len(key) > 0 /\ \A i \in 1..Len(key) : IsWord(key[i])

\* templating::replace: every slot of the key takes the replacement; a
\* template without the slot is returned as it is.
replace(source, key, replacement) ==
    IF ~validate_key(key)
    THEN Result_Err([kind |-> "KeyNotAlphaNumeric", arg |-> key])
    ELSE IF key \in source.slots
    THEN Result_Ok([source EXCEPT
                       !.slots = @ \ {key},
                       !.fills = Append(@, [key |-> key, by |-> replacement])])
    ELSE Result_Ok(source)

(***************************************************************************)
(* The passes (src/passes.rs, src/passes/*.rs).  A pass returns Ok with    *)
(* its residual or Err with its error; Aborted stands for a panic, which   *)
(* ends the process instead of returning.  What a pass reads from outside  *)
(* the program is the record w: w.checks says whether the build has        *)
(* overflow checks, w.template_file is what the file at the template path  *)
(* holds (None when it cannot be read), w.latexmk what happens to the      *)
(* steps of the latexmk pass.                                              *)
(***************************************************************************)
Aborted == [ok |-> FALSE, err |-> [kind |-> "panic", arg |-> << >>]]

IsAborted(r) == ~r.ok /\ r.err.kind = "panic"

\* `?` with the From conversion of the error named kind.
Wrapped(kind, r) == Result_Err([kind |-> kind, arg |-> r.err])

\* a - 1 on u32.
u32_pred(a, checks) ==
    IF a >= 1 THEN Returned(a - 1)
    ELSE IF checks THEN Panicked
    ELSE [panic |-> FALSE, hi |-> 65535, lo |-> 65535]

\* a - b + 1 on u32, for a and b below 65536.
u32_sub_add1(a, b, checks) ==
    IF a >= b THEN Returned(a - b + 1)
    ELSE IF checks THEN Panicked
    ELSE IF a - b = -1 THEN Returned(0)
    ELSE [panic |-> FALSE, hi |-> 65535, lo |-> 65536 + (a - b) + 1]

\* The built-in templates (data/template_tikz.tex, data/template_abstex.tex,
\* data/template.html) hold the slots their pass fills.
TikzTemplate == Template("template_tikz.tex", {KeyCalendar})

AbstexTemplate ==
    Template("template_abstex.tex", {KeyBeginDate, KeyEndDate, KeyAbstracts})

HtmlTemplate == Template("template.html", {KeyCalendar})

\* get_template: the built-in template, or the file at the path.
get_template(template_path, builtin, w) ==
    IF template_path = None THEN Result_Ok(builtin)
    ELSE IF IsSome(w.template_file) THEN Result_Ok(Unwrap(w.template_file))
    ELSE Result_Err([kind |-> "io", arg |-> Unwrap(template_path)])

\* format("%A, %B %e"): the day of the week (0 for Monday; day number 0
\* is a Wednesday), the month and the day.
day_header(dt) ==
    [weekday |-> (DayNumber(dt.year, dt.month, dt.day) + 2) % 7,
     month   |-> dt.month,
     day     |-> dt.day]

\* format("%H:%M").
hour_minute(dt) == [hour |-> dt.hour, minute |-> dt.minute]

(***************************************************************************)
(* The TikZ backend (src/passes/tikz.rs)                                   *)
(***************************************************************************)
TikzOptions(template_path) == [template_path |-> template_path]

\* tikz_node: the type, the height in hundredths of an hour ({:.2} of
\* duration / 60), the column, the hour and the hundredths of the start
\* (minute * 5 / 3), and the short text.
tikz_node(e, up_left_day, checks) ==
    [type   |-> Type_display(e.event_type),
     height |-> (10 * e.duration + 3) \div 6,
     column |-> u32_sub_add1(e.start_date.day, up_left_day, checks),
     hour   |-> e.start_date.hour,
     frac   |-> (e.start_date.minute * 5) \div 3,
     text   |-> short_text(e)]

\* date_headers: one header per day from the top-left corner on.
date_headers(top, day_count, up_left) ==
    [i \in 1..day_count |->
        [col  |-> i,
         top  |-> top,
         date |-> day_header(AddMinutes(up_left, (i - 1) * 1440))]]

\* The text put in the CALENDAR slot: hour marks and dividers, day
\* dividers, date headers, then one node per event in the order given.
tikz_drawn(box, day_count, top, nodes) ==
    IF top.panic \/ \E i \in 1..Len(nodes) : nodes[i].column.panic
    THEN Aborted
    ELSE Result_Ok([first_hour |-> box.up_left.hour,
                    last_hour  |-> box.down_right.hour
                                     + (IF box.down_right.minute # 0 THEN 1 ELSE 0),
                    day_count  |-> day_count,
                    top        |-> top,
                    headers    |-> date_headers(top, day_count, box.up_left),
                    nodes      |-> nodes])

tikz_calendar(evs, box, day_count, checks) ==
    tikz_drawn(box, day_count, u32_pred(box.up_left.hour, checks),
               [i \in 1..Len(evs) |-> tikz_node(evs[i], box.up_left.day, checks)])

\* The days from first_day() to last_day(), both counted.
day_count_of(box) ==
    DayNumber(box.down_right.year, box.down_right.month, box.down_right.day)
        - DayNumber(box.up_left.year, box.up_left.month, box.up_left.day) + 1

tikz_fill(template, calendar) ==
    IF ~calendar.ok THEN calendar
    ELSE LET filled == replace(template, KeyCalendar, calendar.val)
         IN  IF filled.ok THEN filled
             ELSE Wrapped("CouldNotReplaceTemplate", filled)

\* tikz::Pass::apply_with, with the template and the bounding box it gets.
tikz_render(evs, template, box, w) ==
    IF ~template.ok THEN Wrapped("CouldNotReadTemplate", template)
    ELSE IF box = None
    THEN Result_Err([kind |-> "NoEventProvided", arg |-> << >>])
    ELSE IF last_day(Unwrap(box)) = None \/ first_day(Unwrap(box)) = None
    THEN Result_Err([kind |-> "InvalidDatetime", arg |-> << >>])
    ELSE tikz_fill(template.val,
                   tikz_calendar(evs, Unwrap(box), day_count_of(Unwrap(box)),
                                 w.checks))

tikz_apply_with(evs, opts, w) ==
    tikz_render(evs, get_template(opts.template_path, TikzTemplate, w),
                find_bounding_box(evs), w)

\* tikz::Pass::apply.
tikz_apply(evs, w) == tikz_apply_with(evs, TikzOptions(None), w)

(***************************************************************************)
(* The abstracts backend (src/passes/abstex.rs)                            *)
(***************************************************************************)
AbstexOptions(template_path) == [template_path |-> template_path]

\* sort_by_key(|e| e.start_date): a stable sort.  insert_sorted puts e
\* behind every event of the sorted list that starts no later.
insert_sorted(sorted, e) ==
    LET k == Cardinality({i \in 1..Len(sorted) :
                             Instant(sorted[i].start_date) <= Instant(e.start_date)})
    IN  SubSeq(sorted, 1, k) \o <<e>> \o SubSeq(sorted, k + 1, Len(sorted))

RECURSIVE sort_from(_, _, _)
sort_from(evs, i, sorted) ==
    IF i > Len(evs) THEN sorted
    ELSE sort_from(evs, i + 1, insert_sorted(sorted, evs[i]))

sort_by_start_date(evs) == sort_from(evs, 1, << >>)

\* day_delimiter.
day_delimiter(day) == [kind |-> "section", date |-> day_header(day)]

\* talk_title, talk_subtitle and the description paragraph of one event.
talk_entry(e) ==
    [kind        |-> "talk",
     language    |-> e.language,
     title       |-> e.title,
     time        |-> hour_minute(e.start_date),
     speakers    |-> e.speakers,
     description |-> e.description]

\* The loop over the sorted events: a section when the event is on a later
\* day than `day`, then the entry of a talk or of fun time.
RECURSIVE abstracts_from(_, _, _)
abstracts_from(evs, i, day) ==
    IF i > Len(evs) THEN << >>
    ELSE LET e     == evs[i]
             later == date_naive(e.start_date) > day
         IN  (IF later THEN <<day_delimiter(e.start_date)>> ELSE << >>)
             \o (IF e.event_type \in {Talk, Fun} THEN <<talk_entry(e)>> ELSE << >>)
             \o abstracts_from(evs, i + 1,
                               IF later THEN date_naive(e.start_date) ELSE day)

\* The three replacements, BEGIN_DATE then END_DATE then ABSTRACTS.
replaced(t, key, replacement) ==
    IF t.ok THEN replace(t.val, key, replacement) ELSE t

abstex_filled(t) == IF t.ok THEN t ELSE Wrapped("CouldNotReplaceTemplate", t)

abstex_fill(template, box, abstracts) ==
    abstex_filled(
        replaced(replaced(replace(template, KeyBeginDate, day_header(box.up_left)),
                          KeyEndDate, day_header(box.down_right)),
                 KeyAbstracts, abstracts))

\* abstex::Pass::apply_with, with the sorted events, the template and the
\* bounding box it gets.
abstex_render(sorted, template, box) ==
    IF ~template.ok THEN Wrapped("CouldNotReadTemplate", template)
    ELSE IF box = None
    THEN Result_Err([kind |-> "NoEventProvided", arg |-> << >>])
    ELSE IF first_day(Unwrap(box)) = None \/ last_day(Unwrap(box)) = None
    THEN Result_Err([kind |-> "InvalidDatetime", arg |-> << >>])
    ELSE abstex_fill(template.val, Unwrap(box),
                     abstracts_from(sorted, 1, date_naive(Unwrap(box).up_left) - 1))

abstex_sorted(sorted, opts, w) ==
    abstex_render(sorted, get_template(opts.template_path, AbstexTemplate, w),
                  find_bounding_box(sorted))

abstex_apply_with(evs, opts, w) == abstex_sorted(sort_by_start_date(evs), opts, w)

\* abstex::Pass::apply.
abstex_apply(evs, w) == abstex_apply_with(evs, AbstexOptions(None), w)

(***************************************************************************)
(* The HTML backend (src/passes/html.rs)                                   *)
(***************************************************************************)
HTMLBackendOptions(template_path) == [template_path |-> template_path]

\* duration * 100 / (8 * 60) on u32.  The product is kept as two 16-bit
\* halves; when it leaves the u32 range a build with overflow checks panics
\* and a build without them goes on with the product modulo 2^32.
event_height(duration, checks) ==
    LET b  == (duration % 65536) * 100
        a  == (duration \div 65536) * 100 + b \div 65536
        hi == a % 65536
        lo == b % 65536
    IN  IF a >= 65536 /\ checks THEN [panic |-> TRUE, percent |-> 0]
        ELSE [panic   |-> FALSE,
              percent |-> (hi \div 480) * 65536
                            + ((hi % 480) * 65536 + lo) \div 480]

\* Event::to_html: the class, the height, the language, the title, the
\* speakers of a talk and the description.
event_to_html(e, checks) ==
    [class       |-> Type_display(e.event_type),
     height      |-> event_height(e.duration, checks),
     language    |-> e.language,
     title       |-> e.title,
     speakers    |-> IF e.event_type = Talk THEN e.speakers ELSE << >>,
     description |-> e.description]

\* sort_by_key(|e| e.start_date.time()): a stable sort of the events of
\* one day.
insert_by_time(sorted, e) ==
    LET k == Cardinality({i \in 1..Len(sorted) :
                             time(sorted[i].start_date) <= time(e.start_date)})
    IN  SubSeq(sorted, 1, k) \o <<e>> \o SubSeq(sorted, k + 1, Len(sorted))

RECURSIVE sort_by_time(_, _, _)
sort_by_time(evs, i, sorted) ==
    IF i > Len(evs) THEN sorted
    ELSE sort_by_time(evs, i + 1, insert_by_time(sorted, evs[i]))

\* The events of the list that start on the day numbered n, in the order of
\* the list.
RECURSIVE events_of_day(_, _, _)
events_of_day(evs, i, n) ==
    IF i > Len(evs) THEN << >>
    ELSE (IF date_naive(evs[i].start_date) = n THEN <<evs[i]>> ELSE << >>)
         \o events_of_day(evs, i + 1, n)

\* The inner loop: the start time when no time was shown yet or the event
\* starts at the time shown last, the event, then its end time.
RECURSIVE day_cards(_, _, _, _)
day_card(e, shown, checks) ==
    [start |-> IF shown THEN Some(hour_minute(e.start_date)) ELSE None,
     event |-> event_to_html(e, checks),
     end   |-> hour_minute(end_of_event(e))]

day_cards(evs, i, previous_hour, checks) ==
    IF i > Len(evs) THEN << >>
    ELSE LET shown == \/ previous_hour = None
                      \/ Unwrap(previous_hour) = evs[i].start_date
         IN  <<day_card(evs[i], shown, checks)>>
             \o day_cards(evs, i + 1,
                          IF shown THEN Some(evs[i].start_date) ELSE previous_hour,
                          checks)

\* One <div class="day">: the day's header and its events by time of day.
html_day(evs, n, checks) ==
    [date  |-> day_header(DateOfDayNumber(n)),
     cards |-> day_cards(sort_by_time(events_of_day(evs, 1, n), 1, << >>),
                         1, None, checks)]

html_fill(template, calendar) ==
    LET filled == replace(template, KeyCalendar, calendar)
    IN  IF filled.ok THEN filled ELSE Wrapped("CouldNotReplaceTemplate", filled)

\* The loop over 0..nb_days.  A count that wrapped below zero runs the loop
\* until the date leaves the range of NaiveDate, where the addition panics.
html_calendar(evs, box, count, checks) ==
    IF count.panic \/ count.hi > 0 THEN Aborted
    ELSE IF \E i \in 1..Len(evs) :
               /\ event_height(evs[i].duration, checks).panic
               /\ date_naive(evs[i].start_date) - date_naive(box.up_left)
                    \in 0..(count.lo - 1)
    THEN Aborted
    ELSE Result_Ok([i \in 1..count.lo |->
                       html_day(evs, date_naive(box.up_left) + i - 1, checks)])

html_filled(template, calendar) ==
    IF calendar.ok THEN html_fill(template, calendar.val) ELSE calendar

\* HTMLBackend::apply_with, with the template and the bounding box it gets.
html_render(evs, template, box, w) ==
    IF ~template.ok THEN Wrapped("CouldNotReadTemplate", template)
    ELSE IF box = None \/ last_day(Unwrap(box)) = None
    THEN Result_Err([kind |-> "InvalidDatetime", arg |-> << >>])
    ELSE IF first_day(Unwrap(box)) = None THEN Aborted
    ELSE html_filled(template.val,
                     html_calendar(evs, Unwrap(box),
                                   u32_sub_add1(Unwrap(box).down_right.day,
                                                Unwrap(box).up_left.day, w.checks),
                                   w.checks))

html_apply_with(evs, opts, w) ==
    html_render(evs, get_template(opts.template_path, HtmlTemplate, w),
                find_bounding_box(evs), w)

\* HTMLBackend::apply.
html_apply(evs, w) == html_apply_with(evs, HTMLBackendOptions(None), w)

(***************************************************************************)
(* The latexmk pass (src/passes/latexmk.rs).  A file is kept as its stem   *)
(* and its extension.  The pass answers with its result and with the files *)
(* it leaves on the disk.  Of the world, w.files are the files on the disk *)
(* before the pass, w.random the fresh name the generator gives (None when *)
(* the generator fails), and w.write, w.spawn, w.wait, w.pdf and w.remove  *)
(* say whether the input file can be written, latexmk can be launched, can *)
(* be waited for, writes a PDF, and whether the files can be removed.      *)
(***************************************************************************)
LatexmkOptions(input_path, output_path, save_temps) ==
    [input_path  |-> input_path,
     output_path |-> output_path,
     save_temps  |-> save_temps]

File(stem, ext) == [stem |-> stem, ext |-> ext]

with_extension(path, ext) == File(path.stem, ext)

Ran(result, files) == [result |-> result, files |-> files]

IOError(what) == Result_Err([kind |-> "IOError", arg |-> what])

\* `input_file`: the path of the options, or random_valid_filename(16).
input_file(opts, w) ==
    IF IsSome(opts.input_path) THEN Result_Ok(Unwrap(opts.input_path))
    ELSE IF IsSome(w.random) THEN Result_Ok(Unwrap(w.random))
    ELSE Result_Err([kind |-> "CouldNotCreateTempFile", arg |-> "random"])

\* cleanup: every file that matches the input path with the extension `*`
\* is removed; the first removal that fails ends it.
cleanup(input_path, files, w) ==
    IF w.remove THEN Result_Ok({f \in files : f.stem # input_path.stem})
    ELSE Result_Err([kind |-> "CouldNotCleanup", arg |-> "remove"])

\* The end of apply_with: the PDF is read, then the files are cleaned up
\* unless save_temps is set; an error of the cleanup replaces the result.
latexmk_read(latex, input_path, opts, w, files) ==
    LET ret     == IF with_extension(input_path, "pdf") \in files
                   THEN Result_Ok([pdf_of |-> latex, fresh |-> w.pdf])
                   ELSE IOError("read")
        cleaned == cleanup(input_path, files, w)
    IN  IF opts.save_temps THEN Ran(ret, files)
        ELSE IF cleaned.ok THEN Ran(ret, cleaned.val)
        ELSE Ran(cleaned, files)

\* What a run of latexmk leaves beside the input file.
latexmk_outputs(input_path, w) ==
    {with_extension(input_path, "aux"), with_extension(input_path, "log")}
        \cup (IF w.pdf THEN {with_extension(input_path, "pdf")} ELSE {})

\* From the write of the input file to the wait for latexmk.
latexmk_run(latex, input_path, opts, w) ==
    IF ~w.write THEN Ran(IOError("write"), w.files)
    ELSE IF ~w.spawn THEN Ran(IOError("spawn"), w.files \cup {input_path})
    ELSE IF ~w.wait
    THEN Ran(IOError("wait"),
             w.files \cup {input_path} \cup latexmk_outputs(input_path, w))
    ELSE latexmk_read(latex, input_path, opts, w,
                      w.files \cup {input_path} \cup latexmk_outputs(input_path, w))

\* latexmk::Pass::apply_with.
latexmk_apply_with(latex, opts, w) ==
    LET input_unwrapped == input_file(opts, w)
    IN  IF ~input_unwrapped.ok THEN Ran(input_unwrapped, w.files)
        ELSE latexmk_run(latex, input_unwrapped.val, opts, w)

\* A variant of latexmk::Pass::apply that keeps the temporary files.
latexmk_apply_saving_temps(latex, w) ==
    latexmk_apply_with(latex, LatexmkOptions(None, None, TRUE), w)

\* latexmk::Pass::apply.
latexmk_apply(latex, w) ==
    latexmk_apply_with(latex, LatexmkOptions(None, None, FALSE), w)

(***************************************************************************)
(* CompilingPass and PassInput (src/passes.rs), and the compositions of    *)
(* src/main.rs.                                                            *)
(***************************************************************************)
Passes == {"ParseTimetable", "tikz", "abstex", "html", "latexmk"}

\* P::apply(data).  The passes that touch the disk answer with Ran, the
\* others leave the disk as it is.
apply(p, input, w) ==
    CASE p = "ParseTimetable" -> Ran(ParseTimetable_apply(input), w.files)
      [] p = "tikz"           -> Ran(tikz_apply(input, w), w.files)
      [] p = "abstex"         -> Ran(abstex_apply(input, w), w.files)
      [] p = "html"           -> Ran(html_apply(input, w), w.files)
      [] p = "latexmk"        -> latexmk_apply(input, w)

\* P::apply_with(data, ctx).  ParseTimetable does not define apply_with:
\* the default of the trait discards the context and calls apply.
apply_with(p, input, ctx, w) ==
    CASE p = "ParseTimetable" -> apply(p, input, w)
      [] p = "tikz"           -> Ran(tikz_apply_with(input, ctx, w), w.files)
      [] p = "abstex"         -> Ran(abstex_apply_with(input, ctx, w), w.files)
      [] p = "html"           -> Ran(html_apply_with(input, ctx, w), w.files)
      [] p = "latexmk"        -> latexmk_apply_with(input, ctx, w)

\* PassInput::chain_pass and chain_pass_with.
chain_pass(input, p, w) == apply(p, input, w)

chain_pass_with(input, p, ctx, w) == apply_with(p, input, ctx, w)

\* A variant of CompilerError::from that files every error under the
\* parser's.
CompilerError_from_parser(p, e) == [kind |-> "CouldNotParseSeri", arg |-> e]

\* CompilerError::from, by the pass whose error is converted.
CompilerError_from(p, e) ==
    CASE p = "ParseTimetable" -> [kind |-> "CouldNotParseSeri", arg |-> e]
      [] p = "html"           -> [kind |-> "CouldNotGenerateHTML", arg |-> e]
      [] p = "abstex"         -> [kind |-> "CouldNotGenerateAbsTex", arg |-> e]
      [] p = "tikz"           -> [kind |-> "CouldNotGenerateTikz", arg |-> e]
      [] p = "latexmk"        -> [kind |-> "CouldNotCallLatexmk", arg |-> e]

\* The compositions: the passes each one chains after ParseTimetable.
Drivers ==
    {"generate_tikz", "generate_abstex", "generate_html", "generate_tikz_pdf",
     "generate_abstract_pdf"}

renderer_of(d) ==
    CASE d \in {"generate_tikz", "generate_tikz_pdf"}        -> "tikz"
      [] d \in {"generate_abstex", "generate_abstract_pdf"}  -> "abstex"
      [] d = "generate_html"                                 -> "html"

calls_latexmk(d) == d \in {"generate_tikz_pdf", "generate_abstract_pdf"}

\* String::into_bytes.
into_bytes(text) == [bytes_of |-> text]

(***************************************************************************)
(* Inputs.  The events the bounding box is computed from are events        *)
(* Event::from_str can build (any date and time, any duration).            *)
(***************************************************************************)
MaxEvents == 3

MaxPieces == 3

MaxDocPieces == 4

MaxFieldPieces == 3

MaxText == 8

MaxLength == 8

MaxSpeakers == 4

MaxKeyPieces == 3

Ev(start, minutes) ==
    [event_type  |-> Talk,
     start_date  |-> start,
     duration    |-> minutes,
     title       |-> NoTitle,
     description |-> None,
     language    |-> None,
     speakers    |-> << >>]

\* Same day, two days later, across midnight, the end of January and the
\* start of February, across the new year, and a leap day.
BoxEvents ==
    { Ev(DateTime(2023, 11, 6, 9, 0), 60),
      Ev(DateTime(2023, 11, 6, 10, 30), 30),
      Ev(DateTime(2023, 11, 8, 8, 0), 45),
      Ev(DateTime(2023, 11, 6, 23, 0), 120),
      Ev(DateTime(2023, 1, 31, 9, 0), 60),
      Ev(DateTime(2023, 2, 10, 10, 0), 0),
      Ev(DateTime(2023, 2, 1, 0, 30), 1440),
      Ev(DateTime(2023, 12, 31, 23, 30), 60),
      Ev(DateTime(2024, 2, 29, 12, 0), 30) }

(***************************************************************************)
(* The lines an event block is written from.  Each line records, beside    *)
(* its text, what its author wrote: the field it sets and the value meant  *)
(* (good is FALSE when the value is not of the field's shape).  The field  *)
(* "none" is a line without a colon, "blank" the empty line that ends the  *)
(* header, "text" a line of the description.                               *)
(***************************************************************************)
\* The value a line means sits in the component of its type: at (a date
\* and time), num (a number), kind (an event type), str (a text: the title,
\* a line of the description, or the text of a value that is not of its
\* field's shape) or list (the speakers); the other components are idle.
NoDate == DateTime(1, 1, 1, 0, 0)

LineDate1 ==
    [text  |-> <<"d", "a", "t", "e", ":", " ", "2", "0", "2", "3", "-", "1",
                 "1", "-", "0", "6", " ", "0", "9", ":", "0", "0">>,
     field |-> "date", good |-> TRUE,
     at |-> DateTime(2023, 11, 6, 9, 0), num |-> 0, kind |-> Talk,
     str |-> << >>,
     list |-> << >>]

LineDate2 ==
    [text  |-> <<"d", "a", "t", "e", ":", "2", "0", "2", "4", "-", "0", "2",
                 "-", "2", "9", " ", "2", "3", ":", "3", "0">>,
     field |-> "date", good |-> TRUE,
     at |-> DateTime(2024, 2, 29, 23, 30), num |-> 0, kind |-> Talk,
     str |-> << >>,
     list |-> << >>]

LineDateBad ==
    [text  |-> <<"d", "a", "t", "e", ":", " ", "0", "6", "/", "1", "1", "/",
                 "2", "0", "2", "3">>,
     field |-> "date", good |-> FALSE,
     at |-> NoDate, num |-> 0, kind |-> Talk,
     str |-> <<"0", "6", "/", "1", "1", "/", "2", "0", "2", "3">>,
     list |-> << >>]

LineDuration1 ==
    [text  |-> <<"d", "u", "r", "a", "t", "i", "o", "n", ":", " ", "6", "0">>,
     field |-> "duration", good |-> TRUE,
     at |-> NoDate, num |-> 60, kind |-> Talk,
     str |-> << >>,
     list |-> << >>]

LineDuration2 ==
    [text  |-> <<"d", "u", "r", "a", "t", "i", "o", "n", ":", "\t", " ", "9",
                 "0">>,
     field |-> "duration", good |-> TRUE,
     at |-> NoDate, num |-> 90, kind |-> Talk,
     str |-> << >>,
     list |-> << >>]

LineDurationBad ==
    [text  |-> <<"d", "u", "r", "a", "t", "i", "o", "n", ":", " ", "1", "h">>,
     field |-> "duration", good |-> FALSE,
     at |-> NoDate, num |-> 0, kind |-> Talk,
     str |-> <<"1", "h">>,
     list |-> << >>]

LineType ==
    [text  |-> <<"t", "y", "p", "e", ":", " ", "M", "E", "A", "L">>,
     field |-> "type", good |-> TRUE,
     at |-> NoDate, num |-> 0, kind |-> Meal,
     str |-> << >>,
     list |-> << >>]

LineTypeBad ==
    [text  |-> <<"t", "y", "p", "e", ":", " ", "p", "a", "r", "t", "y">>,
     field |-> "type", good |-> FALSE,
     at |-> NoDate, num |-> 0, kind |-> Talk,
     str |-> <<"p", "a", "r", "t", "y">>,
     list |-> << >>]

LineTitle ==
    [text  |-> <<"t", "i", "t", "l", "e", ":", " ", "T", "e", "a", ":", " ",
                 "t", "i", "m", "e">>,
     field |-> "title", good |-> TRUE,
     at |-> NoDate, num |-> 0, kind |-> Talk,
     str |-> <<"T", "e", "a", ":", " ", "t", "i", "m", "e">>,
     list |-> << >>]

LineSpeakers ==
    [text  |-> <<"s", "p", "e", "a", "k", "e", "r", "s", ":", " ", "[", "A",
                 "n", "n", ",", " ", "B", "o", "b", "]">>,
     field |-> "speakers", good |-> TRUE,
     at |-> NoDate, num |-> 0, kind |-> Talk,
     str |-> << >>,
     list |-> <<<<"A", "n", "n">>, <<"B", "o", "b">>>>]

LineNoColon ==
    [text  |-> <<"o", "o", "p", "s">>,
     field |-> "none", good |-> TRUE,
     at |-> NoDate, num |-> 0, kind |-> Talk,
     str |-> <<"o", "o", "p", "s">>,
     list |-> << >>]

LineNoColonPadded ==
    [text  |-> <<" ", "n", "o", " ", "p", " ">>,
     field |-> "none", good |-> TRUE,
     at |-> NoDate, num |-> 0, kind |-> Talk,
     str |-> <<" ", "n", "o", " ", "p", " ">>,
     list |-> << >>]

LineBlank ==
    [text  |-> << >>,
     field |-> "blank", good |-> TRUE,
     at |-> NoDate, num |-> 0, kind |-> Talk,
     str |-> << >>,
     list |-> << >>]

LineText ==
    [text  |-> <<"B", "r", "i", "n", "g", "-", "-", "-", "c", "u", "p", "s">>,
     field |-> "text", good |-> TRUE,
     at |-> NoDate, num |-> 0, kind |-> Talk,
     str |-> <<"B", "r", "i", "n", "g", "-", "-", "-", "c", "u", "p", "s">>,
     list |-> << >>]

LineTitleEmpty ==
    [text  |-> <<"t", "i", "t", "l", "e", ":", " ">>,
     field |-> "title", good |-> TRUE,
     at |-> NoDate, num |-> 0, kind |-> Talk,
     str |-> << >>,
     list |-> << >>]

\* Empty entries at both ends and in the middle, brackets around one name
\* and inside another.
LineSpeakersGaps ==
    [text  |-> <<"s", "p", "e", "a", "k", "e", "r", "s", ":", " ", ",", "[",
                 "C", "y", "]", ",", ",", " ", "D", "]", "e", " ", ",">>,
     field |-> "speakers", good |-> TRUE,
     at |-> NoDate, num |-> 0, kind |-> Talk,
     str |-> << >>,
     list |-> <<<<"C", "y">>, <<"D", "e">>>>]

\* A pair whose key is none of the six the parser reads.
LineUnknown ==
    [text  |-> <<"r", "o", "o", "m", ":", " ", "B", "1", "2">>,
     field |-> "other", good |-> TRUE,
     at |-> NoDate, num |-> 0, kind |-> Talk,
     str |-> <<"B", "1", "2">>,
     list |-> << >>]

\* Month, day and hour written with one digit: not of the shape
\* YYYY-MM-DD HH:MM, yet a date and time the format %Y-%m-%d %H:%M reads.
LineDateLoose ==
    [text  |-> <<"d", "a", "t", "e", ":", " ", "2", "0", "2", "3", "-", "1",
                 "-", "6", " ", "9", ":", "0", "0">>,
     field |-> "date", good |-> TRUE,
     at |-> DateTime(2023, 1, 6, 9, 0), num |-> 0, kind |-> Talk,
     str |-> << >>,
     list |-> << >>]

\* The pattern is matched but February has no 30th day.
LineDateFeb30 ==
    [text  |-> <<"d", "a", "t", "e", ":", " ", "2", "0", "2", "3", "-", "0",
                 "2", "-", "3", "0", " ", "0", "9", ":", "0", "0">>,
     field |-> "date", good |-> FALSE,
     at |-> NoDate, num |-> 0, kind |-> Talk,
     str |-> <<"2", "0", "2", "3", "-", "0", "2", "-", "3", "0", " ", "0",
               "9", ":", "0", "0">>,
     list |-> << >>]

LineDurationNegative ==
    [text  |-> <<"d", "u", "r", "a", "t", "i", "o", "n", ":", " ", "-", "5">>,
     field |-> "duration", good |-> FALSE,
     at |-> NoDate, num |-> 0, kind |-> Talk,
     str |-> <<"-", "5">>,
     list |-> << >>]

LineDurationEmpty ==
    [text  |-> <<"d", "u", "r", "a", "t", "i", "o", "n", ":">>,
     field |-> "duration", good |-> FALSE,
     at |-> NoDate, num |-> 0, kind |-> Talk,
     str |-> << >>,
     list |-> << >>]

\* u32::MAX + 1.
LineDurationHuge ==
    [text  |-> <<"d", "u", "r", "a", "t", "i", "o", "n", ":", " ", "4", "2",
                 "9", "4", "9", "6", "7", "2", "9", "6">>,
     field |-> "duration", good |-> FALSE,
     at |-> NoDate, num |-> 0, kind |-> Talk,
     str |-> <<"4", "2", "9", "4", "9", "6", "7", "2", "9", "6">>,
     list |-> << >>]

\* A language code that names no language.
LineLangUnknown ==
    [text  |-> <<"l", "a", "n", "g", ":", " ", "z", "z">>,
     field |-> "lang", good |-> FALSE,
     at |-> NoDate, num |-> 0, kind |-> Talk,
     str |-> <<"z", "z">>,
     list |-> << >>]

\* A piece is one or more consecutive lines.
BlockPieces ==
    { <<LineDate1, LineDuration1>>, <<LineDate2>>, <<LineDateBad>>,
      <<LineDuration2>>, <<LineDurationBad>>, <<LineType>>, <<LineTypeBad>>,
      <<LineTitle>>, <<LineSpeakers>>, <<LineNoColon>>, <<LineNoColonPadded>>,
      <<LineBlank, LineText>> }

\* The pieces of the blocks that exercise the values of the fields: the
\* required pair, titles, types, speakers, a key the parser does not read,
\* dates and durations that are not of their shape, a line without a colon,
\* a language code that names no language and a description.
FieldPieces ==
    { <<LineDate1, LineDuration1>>, <<LineTitle>>, <<LineTitleEmpty>>,
      <<LineType>>, <<LineTypeBad>>, <<LineSpeakers>>, <<LineSpeakersGaps>>,
      <<LineUnknown>>, <<LineDateBad>>, <<LineDateFeb30>>, <<LineDateLoose>>,
      <<LineDurationBad>>, <<LineDurationNegative>>, <<LineDurationEmpty>>,
      <<LineDurationHuge>>, <<LineNoColon>>, <<LineLangUnknown>>,
      <<LineBlank, LineText>> }

\* Lines whose key is written with whitespace around it, as the grammar
\* `pair = S , key , S , ":" , value , S` allows: a space before the colon,
\* two spaces before the key, a tab before the colon.
LineDateSpaced ==
    [text  |-> <<"d", "a", "t", "e", " ", ":", " ", "2", "0", "2", "3", "-",
                 "1", "1", "-", "0", "6", " ", "0", "9", ":", "0", "0">>,
     field |-> "date", good |-> TRUE,
     at |-> DateTime(2023, 11, 6, 9, 0), num |-> 0, kind |-> Talk,
     str |-> << >>,
     list |-> << >>]

LineDurationIndented ==
    [text  |-> <<" ", " ", "d", "u", "r", "a", "t", "i", "o", "n", ":", " ",
                 "6", "0">>,
     field |-> "duration", good |-> TRUE,
     at |-> NoDate, num |-> 60, kind |-> Talk,
     str |-> << >>,
     list |-> << >>]

LineTypeTabbed ==
    [text  |-> <<"t", "y", "p", "e", "\t", ":", " ", "m", "e", "a", "l">>,
     field |-> "type", good |-> TRUE,
     at |-> NoDate, num |-> 0, kind |-> Meal,
     str |-> << >>,
     list |-> << >>]

\* The pieces of the blocks that exercise the whitespace around the keys.
KeyPieces ==
    { <<LineDate1>>, <<LineDuration1>>, <<LineDateSpaced>>,
      <<LineDurationIndented>>, <<LineTypeTabbed>>, <<LineTitle>>,
      <<LineBlank, LineText>> }

RECURSIVE Flatten(_)
Flatten(pieces) ==
    IF Len(pieces) = 0 THEN << >> ELSE pieces[1] \o Flatten(Tail(pieces))

\* The text of a sequence of lines: the lines joined by line returns.
RECURSIVE JoinLines(_)
JoinLines(texts) ==
    IF Len(texts) = 0 THEN << >>
    ELSE IF Len(texts) = 1 THEN texts[1]
    ELSE texts[1] \o <<"\n">> \o JoinLines(Tail(texts))

TextOf(lines) == JoinLines([i \in 1..Len(lines) |-> lines[i].text])

\* The pieces a timetable document is written from: a whole event, an
\* event with a description, a title holding the delimiter, the delimiter
\* line and a longer run of dashes.
DocEvent1 == TextOf(<<LineDate1, LineDuration1>>)

DocEvent2 == TextOf(<<LineDate2, LineDuration2, LineBlank, LineText>>)

DocTitle == <<"t", "i", "t", "l", "e", ":", " ", "a", "-", "-", "-", "b">>

DocDashes == <<"-", "-", "-", "-", "-">>

DocPieces == {DocEvent1, DocEvent2, DocTitle, Delimiter, DocDashes}

\* The token the grammar writes for each type.
TypeToken(k) ==
    CASE k = Talk      -> <<"t", "a", "l", "k">>
      [] k = Meal      -> <<"m", "e", "a", "l">>
      [] k = Break     -> <<"b", "r", "e", "a", "k">>
      [] k = Fun       -> <<"f", "u", "n">>
      [] k = Transport -> <<"t", "r", "a", "n", "s", "p", "o", "r", "t">>

\* The token tok with the letters at the positions in up written in upper
\* case.
Recase(tok, up) ==
    [i \in 1..Len(tok) |->
        IF i \in up THEN UpperCase[IndexIn(LowerCase, tok[i])] ELSE tok[i]]

\* Tokens that name no type.
OtherTokens ==
    { << >>, <<"t", "a", "l", "k", "s">>, <<"t", "a", "l">>,
      <<"p", "a", "r", "t", "y">>, <<"M", "e", "a", "l", " ">> }

(***************************************************************************)
(* Inputs of the passes: the blocks and documents the compositions are run  *)
(* on, the options they are given and the worlds they run in.              *)
(***************************************************************************)
\* A talk by three speakers with a description, a meal, an event in the
\* first hour of the day, and two events on the two sides of the end of a
\* month.

BlockTalk ==
    <<"t", "y", "p", "e", ":", " ", "t", "a", "l", "k", "\n", "t", "i",
      "t", "l", "e", ":", " ", "R", "u", "s", "t", "\n", "l", "a", "n",
      "g", ":", " ", "e", "n", "\n", "s", "p", "e", "a", "k", "e", "r",
      "s", ":", " ", "[", "A", "n", "n", ",", " ", "B", "o", "b", ",", " ",
      "C", "y", "]", "\n", "d", "a", "t", "e", ":", " ", "2", "0", "2",
      "3", "-", "1", "1", "-", "0", "7", " ", "1", "0", ":", "2", "0",
      "\n", "d", "u", "r", "a", "t", "i", "o", "n", ":", " ", "4", "5",
      "\n", "\n", "O", "n", " ", "*", "r", "u", "s", "t", "*">>

BlockMeal ==
    <<"t", "y", "p", "e", ":", " ", "m", "e", "a", "l", "\n", "t", "i",
      "t", "l", "e", ":", " ", "L", "u", "n", "c", "h", "\n", "d", "a",
      "t", "e", ":", " ", "2", "0", "2", "3", "-", "1", "1", "-", "0", "6",
      " ", "1", "2", ":", "0", "0", "\n", "d", "u", "r", "a", "t", "i",
      "o", "n", ":", " ", "9", "0">>

BlockMidnight ==
    <<"t", "i", "t", "l", "e", ":", " ", "O", "w", "l", "s", "\n", "d",
      "a", "t", "e", ":", " ", "2", "0", "2", "3", "-", "1", "1", "-", "0",
      "7", " ", "0", "0", ":", "3", "0", "\n", "d", "u", "r", "a", "t",
      "i", "o", "n", ":", " ", "3", "0">>

BlockEndOfMonth ==
    <<"d", "a", "t", "e", ":", " ", "2", "0", "2", "3", "-", "1", "1", "-",
      "3", "0", " ", "0", "9", ":", "0", "0", "\n", "d", "u", "r", "a",
      "t", "i", "o", "n", ":", " ", "6", "0">>

BlockNextMonth ==
    <<"t", "y", "p", "e", ":", " ", "f", "u", "n", "\n", "d", "a", "t",
      "e", ":", " ", "2", "0", "2", "3", "-", "1", "2", "-", "0", "1", " ",
      "0", "8", ":", "0", "0", "\n", "d", "u", "r", "a", "t", "i", "o",
      "n", ":", " ", "6", "0">>

\* timetable = event , ( delimiter , event ) * : the blocks, each on its
\* own lines, with the delimiter line between them.
RECURSIVE Timetable(_)
Timetable(bs) ==
    IF Len(bs) = 0 THEN << >>
    ELSE IF Len(bs) = 1 THEN bs[1]
    ELSE bs[1] \o <<"\n">> \o Delimiter \o <<"\n">> \o Timetable(Tail(bs))

\* The last two documents do not parse: a block without a date, and the
\* empty document.
StageDocuments ==
    { Timetable(<<DocEvent1>>),
      Timetable(<<DocEvent1, BlockTalk, BlockMeal>>),
      Timetable(<<BlockMidnight>>),
      Timetable(<<BlockEndOfMonth, BlockNextMonth>>),
      Timetable(<<BlockNextMonth, BlockEndOfMonth>>),
      Timetable(<<DocEvent1, DocTitle>>),
      << >> }

\* The event lists the renderers are given: what the documents parse to,
\* and the empty list.
StageEvents ==
    {<< >>} \cup {ParseTimetable_apply(d).val :
                     d \in {s \in StageDocuments : ParseTimetable_apply(s).ok}}

\* The texts latexmk is given.
StageTexts == {"tikz.tex", "abstex.tex"}

UserTemplatePath == "user.tex"

TemplatePaths == {None, Some(UserTemplatePath)}

\* What the file at the user's template path holds: nothing that can be
\* read, a template with every slot, a template with no slot.
TemplateFiles ==
    { None,
      Some(Template(UserTemplatePath,
                    {KeyCalendar, KeyBeginDate, KeyEndDate, KeyAbstracts})),
      Some(Template(UserTemplatePath, {})) }

LatexmkOptionSets ==
    { LatexmkOptions(None, None, FALSE),
      LatexmkOptions(None, None, TRUE),
      LatexmkOptions(None, Some("out.pdf"), FALSE),
      LatexmkOptions(Some(File("doc", "tex")), None, FALSE),
      LatexmkOptions(Some(File("doc", "tex")), Some("out.pdf"), TRUE) }

\* The files on the disk before a run: a file of another stem, and with it
\* a PDF left by an earlier run on the input path.
FilesBefore ==
    { {File("notes", "txt")},
      {File("notes", "txt"), File("doc", "pdf")} }

World(checks, template_file, steps, files) ==
    [checks        |-> checks,
     template_file |-> template_file,
     random        |-> steps.random,
     write         |-> steps.write,
     spawn         |-> steps.spawn,
     wait          |-> steps.wait,
     pdf           |-> steps.pdf,
     remove        |-> steps.remove,
     files         |-> files]

Steps(random, write, spawn, wait, pdf, remove) ==
    [random |-> IF random THEN Some(File("q7Xa", "tex")) ELSE None,
     write  |-> write, spawn |-> spawn, wait |-> wait, pdf |-> pdf,
     remove |-> remove]

\* Every step of latexmk works, or one of them does not, or no PDF comes
\* out and the files cannot be removed either.
LatexmkSteps ==
    { Steps(TRUE, TRUE, TRUE, TRUE, TRUE, TRUE),
      Steps(FALSE, TRUE, TRUE, TRUE, TRUE, TRUE),
      Steps(TRUE, FALSE, TRUE, TRUE, TRUE, TRUE),
      Steps(TRUE, TRUE, FALSE, TRUE, TRUE, TRUE),
      Steps(TRUE, TRUE, TRUE, FALSE, TRUE, TRUE),
      Steps(TRUE, TRUE, TRUE, TRUE, FALSE, TRUE),
      Steps(TRUE, TRUE, TRUE, TRUE, TRUE, FALSE),
      Steps(TRUE, TRUE, TRUE, TRUE, FALSE, FALSE) }

Worlds ==
    { World(c, t, s, f) :
        c \in BOOLEAN, t \in TemplateFiles, s \in LatexmkSteps, f \in FilesBefore }

\* The worlds of a run that does not reach latexmk.
RenderWorlds ==
    { World(c, t, Steps(TRUE, TRUE, TRUE, TRUE, TRUE, TRUE), {File("notes", "txt")}) :
        c \in BOOLEAN, t \in TemplateFiles }

DriverOptions(template_path, latexmk_options) ==
    [template_path |-> template_path, latexmk |-> latexmk_options]

(***************************************************************************)
(* The state machine.  A run is one of: a list of events is built and its  *)
(* bounding box computed and measured; one event block is parsed; one      *)
(* timetable document is parsed.                                           *)
(***************************************************************************)
IdleBox == events = << >> /\ bb = None /\ days = None

IdleEvent == written = << >> /\ block = << >> /\ parsed = None

IdleDoc == document = << >> /\ blocks = << >> /\ timetable = None

IdleType == talk_type = None /\ token = << >> /\ typed = None

IdleCut == long_text = << >> /\ length = 0 /\ cut = None

IdleShort == event = None /\ short = None

IdlePure == IdleType /\ IdleCut /\ IdleShort

IdleDriver == driver = "" /\ calls = << >> /\ residual = None /\ outcome = None

IdlePass == pass = "" /\ data = None /\ applied = None /\ applied_with = None

IdleWorld == options = None /\ world = None

IdleStages == IdleDriver /\ IdlePass /\ IdleWorld

Idle == IdleBox /\ IdleEvent /\ IdleDoc /\ IdlePure /\ IdleStages

\* --- bounding box ---
InitBox == pc = "events" /\ Idle

\* The caller collects one more event into the list.
PushEvent(e) ==
    /\ pc = "events"
    /\ Len(events) < MaxEvents
    /\ events' = Append(events, e)
    /\ UNCHANGED <<pc, bb, days, eventVars, docVars, pureVars, stageVars>>

\* find_bounding_box(&events).
FindBoundingBox ==
    /\ pc = "events"
    /\ bb' = find_bounding_box(events)
    /\ pc' = IF IsSome(bb') THEN "box" ELSE "no_box"
    /\ UNCHANGED <<events, days, eventVars, docVars, pureVars, stageVars>>

\* bb.nb_days().
NbDays ==
    /\ pc = "box"
    /\ \E r \in nb_days(bb[1]) : days' = Some(r)
    /\ pc' = "days"
    /\ UNCHANGED <<events, bb, eventVars, docVars, pureVars, stageVars>>

NextBox == (\E e \in BoxEvents : PushEvent(e)) \/ FindBoundingBox \/ NbDays

SpecBox == InitBox /\ [][NextBox]_vars

\* --- one event block ---
BlockInputs ==
    UNION {[1..n -> BlockPieces] : n \in 0..MaxPieces}

InitEvent ==
    /\ pc = "block"
    /\ written \in {Flatten(ps) : ps \in BlockInputs}
    /\ block = TextOf(written)
    /\ parsed = None
    /\ IdleBox /\ IdleDoc /\ IdlePure /\ IdleStages

\* Event::from_str(block).
FromStr ==
    /\ pc = "block"
    /\ parsed' = Some(Event_from_str(block))
    /\ pc' = "parsed"
    /\ UNCHANGED <<boxVars, written, block, docVars, pureVars, stageVars>>

NextEvent == FromStr

SpecEvent == InitEvent /\ [][NextEvent]_vars

\* --- one event block, written from the pieces that exercise the fields ---
FieldInputs ==
    UNION {[1..n -> FieldPieces] : n \in 0..MaxFieldPieces}

InitFields ==
    /\ pc = "block"
    /\ written \in {Flatten(ps) : ps \in FieldInputs}
    /\ block = TextOf(written)
    /\ parsed = None
    /\ IdleBox /\ IdleDoc /\ IdlePure /\ IdleStages

SpecFields == InitFields /\ [][NextEvent]_vars

\* --- one event block, written from the pieces with whitespace around keys ---
KeyInputs ==
    UNION {[1..n -> KeyPieces] : n \in 0..MaxKeyPieces}

InitKeys ==
    /\ pc = "block"
    /\ written \in {Flatten(ps) : ps \in KeyInputs}
    /\ block = TextOf(written)
    /\ parsed = None
    /\ IdleBox /\ IdleDoc /\ IdlePure /\ IdleStages

SpecKeys == InitKeys /\ [][NextEvent]_vars

\* --- one timetable document ---
DocInputs ==
    UNION {[1..n -> DocPieces] : n \in 0..MaxDocPieces}

InitTimetable ==
    /\ pc = "document"
    /\ document \in {JoinLines(ps) : ps \in DocInputs}
    /\ blocks = << >>
    /\ timetable = None
    /\ IdleBox /\ IdleEvent /\ IdlePure /\ IdleStages

\* ParseTimetable::apply(document); blocks keeps what the split yields.
Apply ==
    /\ pc = "document"
    /\ blocks' = split(document, Delimiter)
    /\ timetable' = Some(ParseTimetable_apply(document))
    /\ pc' = "timetable"
    /\ UNCHANGED <<boxVars, eventVars, document, pureVars, stageVars>>

NextTimetable == Apply

SpecTimetable == InitTimetable /\ [][NextTimetable]_vars

\* --- one type, displayed and parsed, or one token parsed ---
InitType ==
    /\ \/ /\ pc = "type"
          /\ \E k \in Types : talk_type = Some(k)
          /\ token = << >>
       \/ /\ pc = "token"
          /\ \E k \in Types : \E up \in SUBSET (1..Len(TypeToken(k))) :
                /\ talk_type = Some(k)
                /\ token = Recase(TypeToken(k), up)
       \/ /\ pc = "token"
          /\ talk_type = None
          /\ token \in OtherTokens
    /\ typed = None
    /\ IdleBox /\ IdleEvent /\ IdleDoc /\ IdleCut /\ IdleShort /\ IdleStages

\* format!("{}", talk_type): the text a renderer writes for the type.
Display ==
    /\ pc = "type"
    /\ token' = Type_display(talk_type[1])
    /\ pc' = "shown"
    /\ UNCHANGED <<talk_type, typed, boxVars, eventVars, docVars, cutVars,
                   shortVars, stageVars>>

\* Type::from_str(token), on a displayed text or on a written token.
ParseType ==
    /\ pc \in {"shown", "token"}
    /\ typed' = Some(Type_from_str(token))
    /\ pc' = IF pc = "shown" THEN "reparsed" ELSE "typed"
    /\ UNCHANGED <<talk_type, token, boxVars, eventVars, docVars, cutVars,
                   shortVars, stageVars>>

NextType == Display \/ ParseType

SpecType == InitType /\ [][NextType]_vars

\* --- one text cut to a length ---
\* The texts: the first n letters of the alphabet.
CutTexts == {SubSeq(LowerCase, 1, n) : n \in 0..MaxText}

InitCut ==
    /\ pc = "text"
    /\ long_text \in CutTexts
    /\ length \in 0..MaxLength
    /\ cut = None
    /\ IdleBox /\ IdleEvent /\ IdleDoc /\ IdleType /\ IdleShort /\ IdleStages

\* cut_text(long_text, length).
CutText ==
    /\ pc = "text"
    /\ cut' = Some(cut_text(long_text, length))
    /\ pc' = "cut"
    /\ UNCHANGED <<long_text, length, boxVars, eventVars, docVars, typeVars,
                   shortVars, stageVars>>

NextCut == CutText

SpecCut == InitCut /\ [][NextCut]_vars

\* --- the short text of one event ---
SpeakerNames ==
    <<<<"A", "n", "n">>, <<"B", "o", "b">>, <<"C", "y">>, <<"D", "i">>,
      <<"E", "d">>, <<"F", "l", "o">>>>

\* A title of n letters.
TitleOf(n) == [i \in 1..n |-> LowerCase[((i - 1) % Len(LowerCase)) + 1]]

\* Titles: empty, short, of the very length short_text cuts to, one letter
\* longer, and much longer.
ShortTitles ==
    {TitleOf(0), TitleOf(3), TitleOf(ShortLength), TitleOf(ShortLength + 1),
     TitleOf(ShortLength + 10)}

ShortEvents ==
    {[Ev(DateTime(2023, 11, 6, 9, 0), 60)
        EXCEPT !.event_type = k, !.title = t,
               !.speakers = SubSeq(SpeakerNames, 1, n)] :
        k \in Types, t \in ShortTitles, n \in 0..MaxSpeakers}

InitShort ==
    /\ pc = "event"
    /\ event \in {Some(e) : e \in ShortEvents}
    /\ short = None
    /\ IdleBox /\ IdleEvent /\ IdleDoc /\ IdleType /\ IdleCut /\ IdleStages

\* event.short_text().
ShortText ==
    /\ pc = "event"
    /\ short' = Some(short_text(event[1]))
    /\ pc' = "short"
    /\ UNCHANGED <<event, boxVars, eventVars, docVars, typeVars, cutVars,
                   stageVars>>

NextShort == ShortText

SpecShort == InitShort /\ [][NextShort]_vars

\* --- one composition of main.rs ---
\* The compositions that end with latexmk are run in every world, the others
\* in the worlds that differ in what they read.
InitDriver ==
    /\ pc = "driver"
    /\ driver \in Drivers
    /\ document \in StageDocuments
    /\ \E t \in TemplatePaths :
          IF calls_latexmk(driver)
          THEN /\ options \in {Some(DriverOptions(t, l)) : l \in LatexmkOptionSets}
               /\ world \in {Some(w) : w \in Worlds}
          ELSE /\ options = Some(DriverOptions(t, LatexmkOptions(None, None, FALSE)))
               /\ world \in {Some(w) : w \in RenderWorlds}
    /\ calls = << >> /\ residual = None /\ outcome = None
    /\ blocks = << >> /\ timetable = None
    /\ IdleBox /\ IdleEvent /\ IdlePure /\ IdlePass

\* content.chain_pass::<ParseTimetable>()? with the result r of the pass.
AfterParse(r) ==
    /\ calls' = Append(calls, [stage |-> "ParseTimetable", result |-> r])
    /\ IF r.ok
       THEN /\ residual' = Some(r.val)
            /\ pc' = "parsed"
            /\ UNCHANGED outcome
       ELSE /\ outcome' = Some(Result_Err(CompilerError_from("ParseTimetable", r.err)))
            /\ pc' = "returned"
            /\ UNCHANGED residual

ParseStage ==
    /\ pc = "driver"
    /\ AfterParse(chain_pass(document, "ParseTimetable", Unwrap(world)).result)
    /\ UNCHANGED <<boxVars, eventVars, docVars, pureVars, driver, passVars, worldVars>>

\* .chain_pass_with::<Pass, Options>(options) with the result r of the pass
\* p, followed by `?` when latexmk comes next and by
\* .map(String::into_bytes).map_err(CompilerError::from) when it is the last
\* pass.  A panic of the pass ends the process.
AfterRender(p, r) ==
    /\ calls' = Append(calls, [stage |-> p, result |-> r])
    /\ IF IsAborted(r)
       THEN pc' = "aborted" /\ UNCHANGED <<residual, outcome>>
       ELSE IF ~r.ok
       THEN /\ outcome' = Some(Result_Err(CompilerError_from(p, r.err)))
            /\ pc' = "returned"
            /\ UNCHANGED residual
       ELSE IF calls_latexmk(driver)
       THEN /\ residual' = Some(r.val)
            /\ pc' = "rendered"
            /\ UNCHANGED outcome
       ELSE /\ outcome' = Some(Result_Ok(into_bytes(r.val)))
            /\ pc' = "returned"
            /\ UNCHANGED residual

RenderStage ==
    /\ pc = "parsed"
    /\ AfterRender(renderer_of(driver),
                chain_pass_with(Unwrap(residual), renderer_of(driver),
                                [template_path |-> Unwrap(options).template_path],
                                Unwrap(world)).result)
    /\ UNCHANGED <<boxVars, eventVars, docVars, pureVars, driver, passVars, worldVars>>

\* .chain_pass_with::<latexmk::Pass, latexmk::Options>(latexmk_options)
\* .map_err(CompilerError::from) with what the pass answers.
AfterLatexmk(ran) ==
    /\ calls' = Append(calls, [stage |-> "latexmk", result |-> ran.result])
    /\ world' = Some([Unwrap(world) EXCEPT !.files = ran.files])
    /\ outcome' =
          IF ran.result.ok THEN Some(ran.result)
          ELSE Some(Result_Err(CompilerError_from("latexmk", ran.result.err)))

LatexmkStage ==
    /\ pc = "rendered"
    /\ AfterLatexmk(chain_pass_with(Unwrap(residual), "latexmk",
                                Unwrap(options).latexmk, Unwrap(world)))
    /\ pc' = "returned"
    /\ UNCHANGED <<boxVars, eventVars, docVars, pureVars, driver, residual, passVars,
                   options>>

NextDriver == ParseStage \/ RenderStage \/ LatexmkStage

SpecDriver == InitDriver /\ [][NextDriver]_vars

\* --- one pass, run with apply and with apply_with ---
\* The inputs a pass takes and the contexts it can be given.
PassInputs(p) ==
    CASE p = "ParseTimetable" -> StageDocuments
      [] p = "latexmk"        -> StageTexts
      [] OTHER                -> StageEvents

PassContexts(p) ==
    CASE p = "latexmk" -> LatexmkOptionSets
      [] OTHER         -> {[template_path |-> t] : t \in TemplatePaths}

InitPass ==
    /\ pc = "pass"
    /\ pass \in Passes
    /\ data \in {Some(d) : d \in PassInputs(pass)}
    /\ options \in {Some(c) : c \in PassContexts(pass)}
    /\ world \in {Some(w) : w \in IF pass = "latexmk" THEN Worlds ELSE RenderWorlds}
    /\ applied = None /\ applied_with = None
    /\ IdleBox /\ IdleEvent /\ IdleDoc /\ IdlePure /\ IdleDriver

\* P::apply(data) and P::apply_with(data, options), each run once in the
\* world of the start.
ApplyPass ==
    /\ pc = "pass"
    /\ applied = None
    /\ applied' = Some(apply(pass, Unwrap(data), Unwrap(world)))
    /\ UNCHANGED <<pc, boxVars, eventVars, docVars, pureVars, driverVars, pass, data,
                   applied_with, worldVars>>

ApplyWithPass ==
    /\ pc = "pass"
    /\ applied_with = None
    /\ applied_with' =
          Some(apply_with(pass, Unwrap(data), Unwrap(options), Unwrap(world)))
    /\ UNCHANGED <<pc, boxVars, eventVars, docVars, pureVars, driverVars, pass, data,
                   applied, worldVars>>

NextPass == ApplyPass \/ ApplyWithPass

SpecPass == InitPass /\ [][NextPass]_vars

\* --- any run ---
Init ==
    \/ InitBox \/ InitEvent \/ InitFields \/ InitKeys \/ InitTimetable
    \/ InitType \/ InitCut \/ InitShort
    \/ InitDriver \/ InitPass

Next ==
    \/ NextBox \/ NextEvent \/ NextTimetable
    \/ NextType \/ NextCut \/ NextShort
    \/ NextDriver \/ NextPass

Spec == Init /\ [][Next]_vars

(***************************************************************************)
(* What the properties speak of.                                           *)
(***************************************************************************)
MinOf(S) == CHOOSE x \in S : \A y \in S : x <= y

MaxOf(S) == CHOOSE x \in S : \A y \in S : y <= x

StartsOf(evs) == {evs[i].start_date : i \in 1..Len(evs)}

EndsOf(evs) == {end_of_event(evs[i]) : i \in 1..Len(evs)}

\* find_bounding_box has been called.
BoxCalled == pc \in {"box", "no_box", "days"}

\* find_bounding_box has returned a box.
BoxReturned == pc \in {"box", "days"}

\* The lines of the header, as written: the leading empty lines of the
\* block are dropped by its trim, and the header ends at the first empty
\* line that follows.
RECURSIVE DropBlanks(_)
DropBlanks(lines) ==
    IF Len(lines) = 0 THEN lines
    ELSE IF lines[1].field = "blank" THEN DropBlanks(Tail(lines))
    ELSE lines

RECURSIVE UntilBlank(_)
UntilBlank(lines) ==
    IF Len(lines) = 0 THEN lines
    ELSE IF lines[1].field = "blank" THEN << >>
    ELSE <<lines[1]>> \o UntilBlank(Tail(lines))

HeaderWritten == UntilBlank(DropBlanks(written))

\* The lines written after the empty line that ends the header.
AfterHeader ==
    LET body == DropBlanks(written)
    IN  SubSeq(body, Len(HeaderWritten) + 1, Len(body))

\* The header lines that set field f, in the order written.
LinesOf(f) == SelectSeq(HeaderWritten, LAMBDA l : l.field = f)

Has(f) == Len(LinesOf(f)) > 0

\* The line that counts for a field written more than once: the last one.
Last(f) == LinesOf(f)[Len(LinesOf(f))]

AllGood(f) == \A i \in 1..Len(LinesOf(f)) : LinesOf(f)[i].good

\* A header line with no colon: a line of field "none", or a line of free
\* text that stands in the header.
Colonless(l) == l.field \in {"none", "text"}

AllPairs == \A i \in 1..Len(HeaderWritten) : ~Colonless(HeaderWritten[i])

Parsed == pc = "parsed"

ParsedErr(kind, arg) == parsed[1] = Result_Err([kind |-> kind, arg |-> arg])

(***************************************************************************)
(* C1: find_bounding_box returns no box only for the empty list: for       *)
(* every non-empty list of events, whatever their months and order, a box  *)
(* is returned.                                                            *)
(* Refuted by the code: a corner is moved to another date one field at a   *)
(* time, day first, so moving from February 10 to January 31 asks for      *)
(* February 31 and the `?` returns None.                                   *)
(***************************************************************************)
C1_NonEmptyListGivesBox == (BoxCalled /\ Len(events) > 0) => IsSome(bb)

(***************************************************************************)
(* C2: find_bounding_box of the empty list returns None, never a box.      *)
(***************************************************************************)
C2_EmptyListGivesNoBox == (BoxCalled /\ Len(events) = 0) => bb = None

C2_Witness == pc = "no_box" /\ Len(events) = 0

(***************************************************************************)
(* C3: when a box is returned, the date of its bottom-right corner is the  *)
(* latest date among the ends (start + duration) of the events and its     *)
(* time of day is the latest time of day among those ends; nothing else    *)
(* contributes.                                                            *)
(* Refuted by the code: the corner starts from the first event's start, so *)
(* that start's time of day takes part in the maximum.                     *)
(***************************************************************************)
C3_BottomRightIsLatestEnd ==
    BoxReturned =>
        /\ date_naive(bb[1].down_right)
             = MaxOf({date_naive(e) : e \in EndsOf(events)})
        /\ time(bb[1].down_right) = MaxOf({time(e) : e \in EndsOf(events)})

(***************************************************************************)
(* C4: when a box is returned, the date of its top-left corner is the      *)
(* earliest date among the starts of the events and its time of day is the *)
(* earliest time of day among the starts, each taken on its own.           *)
(***************************************************************************)
C4_TopLeftIsEarliestStart ==
    BoxReturned =>
        /\ date_naive(bb[1].up_left)
             = MinOf({date_naive(e) : e \in StartsOf(events)})
        /\ time(bb[1].up_left) = MinOf({time(e) : e \in StartsOf(events)})

\* November 6 at 09:00 and November 8 at 08:00 give November 6 at 08:00,
\* the start of neither event.
C4_Witness ==
    /\ pc = "box"
    /\ DateTime(2023, 11, 6, 9, 0) \in StartsOf(events)
    /\ DateTime(2023, 11, 8, 8, 0) \in StartsOf(events)
    /\ bb[1].up_left = DateTime(2023, 11, 6, 8, 0)
    /\ bb[1].up_left \notin StartsOf(events)

(***************************************************************************)
(* C5: nb_days returns the number of calendar days from the date of the    *)
(* top-left corner to the date of the bottom-right corner, both included,  *)
(* whatever months or years the corners fall in.                           *)
(* Refuted by the code: it subtracts the days of the month.                *)
(***************************************************************************)
C5_NbDaysIsCalendarDays ==
    pc = "days" =>
        days[1] = Returned(date_naive(bb[1].down_right)
                           - date_naive(bb[1].up_left) + 1)

(***************************************************************************)
(* C6: when a box is returned, its top-left corner is not after its        *)
(* bottom-right corner, as instants.                                       *)
(***************************************************************************)
C6_TopLeftNotAfterBottomRight ==
    BoxReturned => Instant(bb[1].up_left) <= Instant(bb[1].down_right)

C6_Witness ==
    /\ pc = "box"
    /\ Len(events) >= 2
    /\ date_naive(bb[1].up_left) = date_naive(bb[1].down_right)
    /\ time(bb[1].up_left) < time(bb[1].down_right)

(***************************************************************************)
(* C7: a block with no `date` line fails with SettingNotFound naming       *)
(* `date`, and a block with a well-formed date and no `duration` line      *)
(* fails with SettingNotFound naming `duration`; the block with no header  *)
(* line at all is one of them.  (Stated for the blocks that have no other  *)
(* defect: every header line is a pair and every type written is valid.)   *)
(* Refuted by the code: the header of the empty block is split into one    *)
(* empty line, which has no colon, and the result is InvalidField("").     *)
(***************************************************************************)
C7_MissingFieldIsNamed ==
    (Parsed /\ AllPairs /\ AllGood("type")) =>
        /\ ~Has("date") => ParsedErr("SettingNotFound", KeyDate)
        /\ (Has("date") /\ AllGood("date") /\ ~Has("duration"))
              => ParsedErr("SettingNotFound", KeyDuration)

\* The lines of the header as the parser delimits it: the block trimmed,
\* up to its first empty line, trimmed.
HeaderLinesOf(s) == split(split_header(s).header, <<"\n">>)

HasNoColon(line) == Len(line) > 0 /\ \A j \in 1..Len(line) : line[j] # ":"

NoColonAt(lines) == {i \in 1..Len(lines) : HasNoColon(lines[i])}

RequiredWritten ==
    /\ Has("date") /\ AllGood("date")
    /\ Has("duration") /\ AllGood("duration")
    /\ AllGood("type")

\* The description as written: the text after the header, trimmed, when
\* there is any.
DescriptionWritten ==
    LET text == trim(TextOf(AfterHeader))
    IN  IF Len(text) > 0 THEN Some(text) ELSE None

\* Each field of ev is the value its line means; of a field written on
\* several lines, the last counts.
FieldsAsWritten(ev) ==
    /\ ev.start_date = Last("date").at
    /\ ev.duration = Last("duration").num
    /\ Has("type") => ev.event_type = Last("type").kind
    /\ Has("title") => ev.title = Last("title").str
    /\ Has("speakers") => ev.speakers = Last("speakers").list
    /\ ev.description = DescriptionWritten

(***************************************************************************)
(* C9, as claimed: when date and duration are present and well-formed,     *)
(* and the type, if present, is valid, parsing succeeds and each field of  *)
(* the Event is the value written: kind, title, start, duration, speakers  *)
(* in order and description.                                               *)
(* Fails for a block that also holds a line without a colon: that block    *)
(* is refused with InvalidField.                                           *)
(***************************************************************************)
C9_WellFormedBlockParses ==
    (Parsed /\ RequiredWritten) =>
        (parsed[1].ok /\ FieldsAsWritten(parsed[1].val))

(***************************************************************************)
(* C9, amended: when every line of the header is a `key: value` pair, date *)
(* and duration are present and well-formed, and the type, if present, is  *)
(* valid, parsing succeeds and each field of the Event is the value        *)
(* written.                                                                *)
(***************************************************************************)
C9_WellFormedPairsParse ==
    (Parsed /\ RequiredWritten /\ AllPairs) =>
        (parsed[1].ok /\ FieldsAsWritten(parsed[1].val))

\* A block that writes a type and a title beside the required fields.
C9_Witness ==
    /\ Parsed
    /\ RequiredWritten
    /\ AllPairs
    /\ Has("title")
    /\ Has("type")
    /\ parsed[1].ok

\* The lines of the document that are exactly the delimiter.
DelimiterLines(s) ==
    LET lines == split(s, <<"\n">>)
    IN  {i \in 1..Len(lines) : lines[i] = Delimiter}

(***************************************************************************)
(* C10: the document is split into blocks only at the lines that are       *)
(* exactly `---`; an occurrence of `---` inside a line starts no block,    *)
(* and there is one block more than there are delimiter lines.             *)
(* Refuted by the code: it splits at every occurrence of `---`.            *)
(***************************************************************************)
C10_SplitOnlyAtDelimiterLines ==
    pc = "timetable" => Len(blocks) = Cardinality(DelimiterLines(document)) + 1

(***************************************************************************)
(* C11: no parsed Event has an empty title: when the header has no `title` *)
(* line, or the value of the one that counts is empty once trimmed, the    *)
(* title of the Event is the placeholder "(no title)".                     *)
(* Refuted by the code: the placeholder stands in only for an absent       *)
(* `title` key; the value of a `title:` line is taken as it is, empty or   *)
(* not.                                                                    *)
(***************************************************************************)
C11_TitleNeverEmpty ==
    (Parsed /\ parsed[1].ok) =>
        /\ parsed[1].val.title # << >>
        /\ (~Has("title") \/ Last("title").str = << >>)
              => parsed[1].val.title
                   = <<"(", "n", "o", " ", "t", "i", "t", "l", "e", ")">>

\* The parse has failed with the error of this kind, whatever it carries.
ParsedErrKind(kind) == ~parsed[1].ok /\ parsed[1].err.kind = kind

\* The block writes a `type` line and the token of the one that counts
\* names no type.
TypeInvalid == Has("type") /\ ~Last("type").good

(***************************************************************************)
(* C12, as claimed: when the `type` line is absent a parsed Event has kind *)
(* Talk; when it is present with a token that names none of talk, meal,    *)
(* break, fun, transport, parsing fails with the invalid-kind error.       *)
(* Fails for a block that also holds a line without a colon: that block is *)
(* refused with InvalidField before the type is looked at.                 *)
(***************************************************************************)
C12_TypeDefaultsOrIsRefused ==
    Parsed =>
        /\ (~Has("type") /\ parsed[1].ok) => parsed[1].val.event_type = Talk
        /\ TypeInvalid => ParsedErrKind("InvalidTalkType")

(***************************************************************************)
(* C12, amended: when the `type` line is absent a parsed Event has kind    *)
(* Talk; when every line of the header is a `key: value` pair and the      *)
(* `type` line is present with a token that names none of the five types,  *)
(* parsing fails with the invalid-kind error; in no case is an Event       *)
(* produced from a block whose type token names no type.                   *)
(***************************************************************************)
C12_TypeDefaultsOrPairsRefused ==
    Parsed =>
        /\ (~Has("type") /\ parsed[1].ok) => parsed[1].val.event_type = Talk
        /\ TypeInvalid => ~parsed[1].ok
        /\ (TypeInvalid /\ AllPairs) => ParsedErrKind("InvalidTalkType")

\* A block with a good date and duration and the type token `party`.
C12_Witness ==
    /\ Parsed
    /\ AllPairs
    /\ TypeInvalid
    /\ Has("date") /\ AllGood("date")
    /\ Has("duration") /\ AllGood("duration")
    /\ parsed[1] = Result_Err([kind |-> "InvalidTalkType",
                               arg  |-> <<"p", "a", "r", "t", "y">>])

(***************************************************************************)
(* C18: the speakers of a parsed Event hold no empty string; they are the  *)
(* entries of the value of the `speakers` line that counts, with `[` and   *)
(* `]` removed, cut at the commas, each trimmed, the empty ones dropped,   *)
(* in the order written; with no `speakers` line the list is empty.        *)
(***************************************************************************)
C18_SpeakersAsWritten ==
    (Parsed /\ parsed[1].ok) =>
        /\ \A i \in 1..Len(parsed[1].val.speakers) :
              parsed[1].val.speakers[i] # << >>
        /\ parsed[1].val.speakers
             = IF Has("speakers") THEN Last("speakers").list ELSE << >>

\* The line `speakers: ,[Cy],, D]e ,` gives Cy and De.
C18_Witness ==
    /\ Parsed
    /\ parsed[1].ok
    /\ Has("speakers")
    /\ Last("speakers") = LineSpeakersGaps
    /\ parsed[1].val.speakers = <<<<"C", "y">>, <<"D", "e">>>>

\* The block as it was before the lines of unread keys were added to its
\* header: the other header lines, then what follows the header.
PlainWritten ==
    SelectSeq(HeaderWritten, LAMBDA l : l.field # "other") \o AfterHeader

(***************************************************************************)
(* C19: a header line whose key is none of type, title, lang, date,        *)
(* duration, speakers is ignored: the block with such lines added to its   *)
(* header parses to the outcome (the Event, or the error) of the block     *)
(* without them.                                                           *)
(* Refuted by the code, through the defect of C7: the block with no header *)
(* line fails with InvalidField(""), and with a line `room: B12` added it  *)
(* fails with SettingNotFound(date).                                       *)
(***************************************************************************)
C19_UnreadKeysAreIgnored ==
    (Parsed /\ Has("other")) => parsed[1] = Event_from_str(TextOf(PlainWritten))

\* The `date` line that counts is written otherwise than YYYY-MM-DD HH:MM,
\* each number with all its digits.
DateNotOfShape ==
    Has("date") /\ (~Last("date").good \/ Last("date") = LineDateLoose)

\* The `date` line that counts names no date and time the format reads.
DateNotRead == Has("date") /\ ~Last("date").good

\* The date is read and the `duration` line that counts writes no unsigned
\* 32-bit integer.
DurationNotRead ==
    /\ Has("date") /\ Last("date").good
    /\ Has("duration") /\ ~Last("duration").good

C13_DisplayParseRoundTrip ==
    /\ pc \in {"shown", "reparsed"} => token = TypeToken(talk_type[1])
    /\ pc = "reparsed" => typed[1] = Result_Ok(talk_type[1])
    /\ (pc = "typed" /\ IsSome(talk_type)) => typed[1] = Result_Ok(talk_type[1])

\* `tRaNsPoRt` is parsed as Transport.
C13_Witness ==
    /\ pc = "typed"
    /\ talk_type = Some(Transport)
    /\ token = <<"t", "R", "a", "N", "s", "P", "o", "R", "t">>
    /\ typed = Some(Result_Ok(Transport))

(***************************************************************************)
(* C17: cut_text returns the text unchanged when it has at most `length`   *)
(* characters; for every length of 3 or more the result has at most        *)
(* `length` characters, ellipsis included; only for a length under 3 may   *)
(* the result be longer, and then it has `length + 3` characters.          *)
(* Refuted by the code: it shortens the text to make room for the ellipsis *)
(* only when `length > 3`, so at length 3 a longer text gives 6            *)
(* characters.                                                             *)
(***************************************************************************)
C17_CutTextKeepsToLength ==
    pc = "cut" =>
        /\ Len(long_text) <= length => cut[1] = long_text
        /\ length >= 3 => Len(cut[1]) <= length
        /\ Len(cut[1]) > length => (length < 3 /\ Len(cut[1]) = length + 3)

\* The title cut to 30 characters: unchanged when it has at most 30, else
\* its first 27 characters and the ellipsis.
TitleTruncated(e) ==
    IF Len(e.title) <= 30 THEN e.title
    ELSE SubSeq(e.title, 1, 27) \o <<".", ".", ".">>

\* The policy of short_text, with `marker` written after the first speaker
\* of three or more.
ShortTextPolicy(marker) ==
    pc = "short" =>
        LET e == event[1]
            n == Len(e.speakers)
        IN  /\ (e.event_type # Talk \/ n = 0) => short[1] = TitleTruncated(e)
            /\ (e.event_type = Talk /\ n = 1) => short[1] = e.speakers[1]
            /\ (e.event_type = Talk /\ n = 2)
                  => short[1] = e.speakers[1] \o <<" ", "a", "n", "d", " ">>
                                  \o e.speakers[2]
            /\ (e.event_type = Talk /\ n >= 3)
                  => short[1] = e.speakers[1] \o marker

WrittenOrder(d) ==
    CASE d = "generate_tikz"         -> <<"ParseTimetable", "tikz">>
      [] d = "generate_abstex"       -> <<"ParseTimetable", "abstex">>
      [] d = "generate_html"         -> <<"ParseTimetable", "html">>
      [] d = "generate_tikz_pdf"     -> <<"ParseTimetable", "tikz", "latexmk">>
      [] d = "generate_abstract_pdf" -> <<"ParseTimetable", "abstex", "latexmk">>

\* The CompilerError that stands for a failure of each pass.
CommonError(stage) ==
    CASE stage = "ParseTimetable" -> "CouldNotParseSeri"
      [] stage = "tikz"           -> "CouldNotGenerateTikz"
      [] stage = "abstex"         -> "CouldNotGenerateAbsTex"
      [] stage = "html"           -> "CouldNotGenerateHTML"
      [] stage = "latexmk"        -> "CouldNotCallLatexmk"

\* C14: in every composition the passes are called in the written order,
\* none is called after a pass that failed, and what the composition
\* returns is Ok only when every pass was called and succeeded, and is
\* otherwise the error of the one failing pass, converted to the
\* CompilerError of that pass.  A pass that panics returns nothing and is
\* followed by no pass either.
C14_StagesShortCircuit ==
    driver # "" =>
        /\ Len(calls) <= Len(WrittenOrder(driver))
        /\ \A i \in 1..Len(calls) : calls[i].stage = WrittenOrder(driver)[i]
        /\ \A i \in 1..(Len(calls) - 1) : calls[i].result.ok
        /\ pc = "returned" =>
              /\ Len(calls) >= 1
              /\ IsSome(outcome)
              /\ IF calls[Len(calls)].result.ok
                 THEN Len(calls) = Len(WrittenOrder(driver)) /\ Unwrap(outcome).ok
                 ELSE Unwrap(outcome) =
                         Result_Err([kind |-> CommonError(calls[Len(calls)].stage),
                                     arg  |-> calls[Len(calls)].result.err])
        /\ pc = "aborted" => outcome = None /\ IsAborted(calls[Len(calls)].result)
        /\ pc \notin {"returned", "aborted"} => outcome = None

\* A document that does not parse given to generate_tikz_pdf: only the
\* parser was called and the outcome is CouldNotParseSeri; and a template
\* that cannot be read: the renderer was called, latexmk was not.
C14_Witness ==
    /\ driver = "generate_tikz_pdf"
    /\ pc = "returned"
    /\ \/ /\ Len(calls) = 1
          /\ ~Unwrap(outcome).ok
          /\ Unwrap(outcome).err.kind = "CouldNotParseSeri"
       \/ /\ Len(calls) = 2
          /\ ~Unwrap(outcome).ok
          /\ Unwrap(outcome).err.kind = "CouldNotGenerateTikz"

\* The configuration the passes document as their default: no template
\* path for the renderers; no input path, no output path and no temporary
\* files kept for latexmk.
DocumentedDefault(p) ==
    CASE p \in {"tikz", "abstex", "html"} -> [template_path |-> None]
      [] p = "latexmk" ->
            [input_path |-> None, output_path |-> None, save_temps |-> FALSE]

\* The passes that define apply_with themselves.
OverridesApplyWith(p) == p \in {"tikz", "abstex", "html", "latexmk"}

BothApplied == pass # "" /\ IsSome(applied) /\ IsSome(applied_with)

\* C15: run in the same world on the same input, apply and apply_with
\* with the documented default configuration have the same outcome (the
\* result and the files left), for each pass that defines apply_with; for
\* ParseTimetable, which does not, apply_with has the outcome of apply
\* whatever the context.
C15_ApplyIsApplyWithDefault ==
    BothApplied =>
        IF OverridesApplyWith(pass)
        THEN Unwrap(options) = DocumentedDefault(pass) => applied = applied_with
        ELSE applied = applied_with

\* latexmk run both ways with the default configuration on a disk where
\* every step works: a PDF is returned and the temporary files are gone.
C15_Witness ==
    /\ BothApplied
    /\ pass = "latexmk"
    /\ Unwrap(options) = DocumentedDefault(pass)
    /\ Unwrap(applied).result.ok
    /\ Unwrap(applied).files \subseteq Unwrap(world).files

(***************************************************************************)
(* The bounding box and the events it was built from.                      *)
(***************************************************************************)
\* The box b contains the event e: as instants, and date by date and time
\* of day by time of day.  The end of e is its start plus its duration.
Contains(b, e) ==
    LET ends == AddMinutes(e.start_date, e.duration)
    IN  /\ Instant(b.up_left) <= Instant(e.start_date)
        /\ Instant(e.start_date) + e.duration <= Instant(b.down_right)
        /\ date_naive(b.up_left) <= date_naive(e.start_date)
        /\ time(b.up_left) <= time(e.start_date)
        /\ date_naive(ends) <= date_naive(b.down_right)
        /\ time(ends) <= time(b.down_right)

\* C21: when a box is returned for a non-empty list, it contains every
\* event of the list: top_left <= start and start + duration <=
\* bottom_right as instants, and the top-left date and time of day are not
\* after the start's, the bottom-right date and time of day not before the
\* end's.
C21_BoxContainsEveryEvent ==
    (BoxReturned /\ Len(events) > 0) =>
        \A i \in 1..Len(events) : Contains(bb[1], events[i])

\* Three events of which none starts at the top-left corner and none ends
\* at the bottom-right corner, one of them ending after midnight.
C21_Witness ==
    /\ pc = "box"
    /\ Len(events) = 3
    /\ bb[1].up_left \notin StartsOf(events)
    /\ bb[1].down_right \notin {AddMinutes(events[i].start_date, events[i].duration) :
                                   i \in 1..Len(events)}
    /\ \E i \in 1..Len(events) :
          date_naive(AddMinutes(events[i].start_date, events[i].duration))
            > date_naive(events[i].start_date)
    /\ \A i \in 1..Len(events) : Contains(bb[1], events[i])

(***************************************************************************)
(* The timetable and its blocks.                                           *)
(***************************************************************************)
\* What each block parses to on its own, in document order.
BlockResults == [i \in 1..Len(blocks) |-> Event_from_str(blocks[i])]

\* The result is all of the events of rs in order when every one is Ok,
\* and else the first Err of rs.
AllOrFirstError(rs, result) ==
    LET failing == {i \in 1..Len(rs) : ~rs[i].ok}
    IN  /\ result.ok <=> failing = {}
        /\ result.ok => result.val = [i \in 1..Len(rs) |-> rs[i].val]
        /\ ~result.ok => result = rs[MinOf(failing)]

\* The document begins or ends with the delimiter (a line return may
\* follow the last one).
DelimiterAtAnEnd(s) ==
    \/ StartsWithAt(s, Delimiter, 1)
    \/ Len(s) >= 3 /\ StartsWithAt(s, Delimiter, Len(s) - 2)
    \/ Len(s) >= 4 /\ StartsWithAt(s, Delimiter \o <<"\n">>, Len(s) - 3)

\* C22: ParseTimetable returns Ok exactly when every block of the document
\* parses, the list then holds the Event of each block in document order,
\* and when some block fails the result is the error of the first failing
\* block and no list; a document with a leading or trailing delimiter does
\* not parse.
C22_AllOrNothingInOrder ==
    pc = "timetable" =>
        /\ AllOrFirstError(BlockResults, Unwrap(timetable))
        /\ DelimiterAtAnEnd(document) => ~Unwrap(timetable).ok

\* A first block that parses, then `title: a` (no date), then `b` (no
\* colon) and an empty block after the trailing delimiter: the error is the
\* second block's.
C22_Witness ==
    /\ pc = "timetable"
    /\ Len(blocks) = 4
    /\ DelimiterAtAnEnd(document)
    /\ Event_from_str(blocks[1]).ok
    /\ Event_from_str(blocks[3]) = Result_Err([kind |-> "InvalidField", arg |-> <<"b">>])
    /\ Unwrap(timetable) = Result_Err(SettingNotFound(KeyDate))

(***************************************************************************)
(* Whitespace around the keys.                                             *)
(***************************************************************************)
\* The key of a line as written: what stands before its first colon.
KeyWritten(l) == SubSeq(l.text, 1, find(l.text, <<":">>) - 1)

\* The line is a pair whose key has whitespace before or after it.
KeyPadded(l) == find(l.text, <<":">>) # 0 /\ KeyWritten(l) # trim(KeyWritten(l))

\* The line with the whitespace around its key taken away.
Unpadded(l) ==
    IF KeyPadded(l)
    THEN [l EXCEPT !.text = trim(KeyWritten(l))
                              \o SubSeq(l.text, find(l.text, <<":">>), Len(l.text))]
    ELSE l

\* The block with the whitespace around the keys of its header taken away.
UnpaddedWritten ==
    [i \in 1..Len(HeaderWritten) |-> Unpadded(HeaderWritten[i])] \o AfterHeader

(***************************************************************************)
(* C23: whitespace around a key is not part of the key: a block whose      *)
(* header has lines with spaces or tabs before or after the key parses to  *)
(* the outcome of the block with that whitespace taken away.               *)
(* Refuted by the code: split_pairs takes the text before the colon as the *)
(* key without trimming it, so only the whitespace that starts the first   *)
(* header line is dropped (by the trim of the header); `date : ...` sets   *)
(* the key `date ` and the block fails with SettingNotFound(date).         *)
(***************************************************************************)
C23_PaddedKeyIsRecognised ==
    (Parsed /\ \E i \in 1..Len(HeaderWritten) : KeyPadded(HeaderWritten[i]))
        => parsed[1] = Event_from_str(TextOf(UnpaddedWritten))

\* The first header line without a colon, as written.
FirstColonless ==
    HeaderWritten[MinOf({i \in 1..Len(HeaderWritten) : Colonless(HeaderWritten[i])})]

\* The one error the precedence names for the block as written, by its
\* kind: a line without a colon, then the type, then the date, then the
\* duration; "" when the block has none of these defects.
FirstDefect ==
    IF ~AllPairs THEN "InvalidField"
    ELSE IF TypeInvalid THEN "InvalidTalkType"
    ELSE IF ~Has("date") THEN "SettingNotFound"
    ELSE IF ~Last("date").good THEN "InvalidDateShape"
    ELSE IF ~Has("duration") THEN "SettingNotFound"
    ELSE IF ~Last("duration").good THEN "CouldNotParseDuration"
    ELSE ""

\* What the error of that kind carries, for the kinds that carry a text.
FirstDefectArg ==
    IF ~AllPairs THEN FirstColonless.text
    ELSE IF TypeInvalid THEN to_lowercase(Last("type").str)
    ELSE IF ~Has("date") THEN KeyDate
    ELSE IF ~Last("date").good THEN Last("date").str
    ELSE KeyDuration

(***************************************************************************)
(* C24: of a block with several defects the one error returned is the      *)
(* first in the order: a header line without a colon (the first such       *)
(* line), an invalid type token, a missing or malformed date, a missing or *)
(* malformed duration; a block with none of these parses, whatever its     *)
(* lang, title and speakers.                                               *)
(* Refuted by the code, through the defect of C7: the block with no header *)
(* line has no line without a colon and lacks its date, and fails with     *)
(* InvalidField("").                                                       *)
(***************************************************************************)
C24_FirstDefectIsReported ==
    Parsed =>
        IF FirstDefect = "" THEN parsed[1].ok
        ELSE /\ ParsedErrKind(FirstDefect)
             /\ FirstDefect # "CouldNotParseDuration"
                   => parsed[1].err.arg = FirstDefectArg

\* The lists that hold the events of evs in another order.
Reordered(evs) ==
    {[i \in 1..Len(evs) |-> evs[p[i]]] : p \in Permutations(1..Len(evs))}

(***************************************************************************)
(* C25: the outcome of find_bounding_box does not depend on the order of   *)
(* the events: every reordering of a non-empty list gives the same two     *)
(* corners, or no box as well.                                             *)
(* Refuted by the code, through the defects of C3 and C1: the bottom-right *)
(* corner starts from the start of the event that comes first, whose time  *)
(* of day takes part in the maximum, and a corner is moved to another      *)
(* month one field at a time, which fails or not by the order.             *)
(***************************************************************************)
C25_OrderDoesNotMatter ==
    (BoxCalled /\ Len(events) > 0) =>
        \A evs \in Reordered(events) : find_bounding_box(evs) = bb

(***************************************************************************)
(* The calendars the renderers draw.                                       *)
(***************************************************************************)
\* What a renderer put in the CALENDAR slot of its template, when it
\* returned a text and the template had the slot.
DrawnBy(r) ==
    IF r.ok /\ Len(r.val.fills) > 0 THEN Some(r.val.fills[1].by) ELSE None

\* apply_with of pass p has run on a list of events that has a bounding
\* box, with a template it could read.
Rendered(p) ==
    /\ pass = p
    /\ IsSome(applied_with)
    /\ IsSome(find_bounding_box(Unwrap(data)))
    /\ get_template(Unwrap(options).template_path, TikzTemplate, Unwrap(world)).ok

\* The calendar days from the first day of the box to the day e starts on.
DayOffset(box, e) == date_naive(e.start_date) - date_naive(box.up_left)

\* Every node of the drawing stands in the column of its event's day,
\* within the grid.
ColumnsAreDayOffsets(box, evs, drawn) ==
    \A i \in 1..Len(evs) :
        /\ drawn.nodes[i].column = Returned(DayOffset(box, evs[i]) + 1)
        /\ DayOffset(box, evs[i]) + 1 \in 1..drawn.day_count

(***************************************************************************)
(* C26: in the TikZ pass, for every list of events that has a box, the     *)
(* column of each event (start day of the month minus top-left day of the  *)
(* month plus one) lies between 1 and the day count of the grid and is the *)
(* event's calendar-day offset from the first day plus one; the unsigned   *)
(* subtraction never underflows.  (Stated for the lists whose earliest     *)
(* time of day is 01:00 or later, so that no other subtraction of the pass *)
(* is in play.)                                                            *)
(* Refuted by the code: the days of the month are subtracted, so an event  *)
(* on December 1 in a box that starts on November 30 gives 1 - 30.         *)
(***************************************************************************)
C26_ColumnIsDayOffset ==
    (Rendered("tikz") /\ Unwrap(find_bounding_box(Unwrap(data))).up_left.hour >= 1) =>
        /\ ~IsAborted(Unwrap(applied_with).result)
        /\ IsSome(DrawnBy(Unwrap(applied_with).result)) =>
              ColumnsAreDayOffsets(Unwrap(find_bounding_box(Unwrap(data))),
                                   Unwrap(data),
                                   Unwrap(DrawnBy(Unwrap(applied_with).result)))

\* The events of the list that start on the day numbered n.
StartingOn(evs, n) == {k \in 1..Len(evs) : date_naive(evs[k].start_date) = n}

\* The columns are the calendar days of the box, from the first to the
\* last, and each holds one card for each event that starts on its day.
ColumnsCoverDays(box, evs, columns) ==
    /\ Len(columns) = day_count_of(box)
    /\ \A i \in 1..Len(columns) :
          /\ columns[i].date
               = day_header(DateOfDayNumber(date_naive(box.up_left) + i - 1))
          /\ Len(columns[i].cards)
               = Cardinality(StartingOn(evs, date_naive(box.up_left) + i - 1))
    /\ \A k \in 1..Len(evs) :
          DayOffset(box, evs[k]) + 1 \in 1..Len(columns)

(***************************************************************************)
(* C27: in the HTML pass, for every non-empty list of events that has a    *)
(* box, the columns are the calendar days from the first day to the last   *)
(* day of the box, as many as the day count of the TikZ pass, and every    *)
(* event is drawn once, in the column of the day it starts on.             *)
(* Refuted by the code: the number of columns is the difference of the     *)
(* days of the month, so a box from November 30 to December 1 gives        *)
(* 1 - 30 + 1 columns.                                                     *)
(***************************************************************************)
C27_EveryEventInItsDayColumn ==
    Rendered("html") =>
        /\ ~IsAborted(Unwrap(applied_with).result)
        /\ IsSome(DrawnBy(Unwrap(applied_with).result)) =>
              ColumnsCoverDays(Unwrap(find_bounding_box(Unwrap(data))),
                               Unwrap(data),
                               Unwrap(DrawnBy(Unwrap(applied_with).result)))

\* No event of the list starts on a day of the month below the top-left
\* corner's.
ColumnsInRange(box, evs) ==
    \A i \in 1..Len(evs) : evs[i].start_date.day >= box.up_left.day

\* The hours of the drawing: the line above the first hour is first_hour - 1
\* as a number, and the hours are in order within the day.
HoursInRange(drawn) ==
    /\ drawn.top = Returned(drawn.first_hour - 1)
    /\ drawn.first_hour - 1 >= 0
    /\ \A i \in 1..Len(drawn.headers) : drawn.headers[i].top = drawn.top
    /\ drawn.first_hour <= drawn.last_hour
    /\ drawn.last_hour <= 24

(***************************************************************************)
(* C28: in the TikZ pass the hour coordinates stay in the unsigned range   *)
(* for every list of events: first_hour - 1, used for the day dividers and *)
(* the date headers, never underflows, also when the earliest start is     *)
(* between 00:00 and 00:59, and first_hour <= last_hour <= 24.  (Stated    *)
(* for the lists whose columns do not underflow.)                          *)
(* Refuted by the code: first_hour is the hour of the top-left corner, 0   *)
(* for an event that starts at 00:30, and 0 - 1 is computed on u32.        *)
(***************************************************************************)
C28_HoursStayInRange ==
    (Rendered("tikz")
       /\ ColumnsInRange(Unwrap(find_bounding_box(Unwrap(data))), Unwrap(data))) =>
        /\ ~IsAborted(Unwrap(applied_with).result)
        /\ IsSome(DrawnBy(Unwrap(applied_with).result)) =>
              HoursInRange(Unwrap(DrawnBy(Unwrap(applied_with).result)))

(***************************************************************************)
(* The files the latexmk pass leaves.                                      *)
(***************************************************************************)
\* apply_with of the latexmk pass has run, has written its input file, and
\* files can be removed from the disk.
LatexmkWrote ==
    /\ pass = "latexmk"
    /\ IsSome(applied_with)
    /\ input_file(Unwrap(options), Unwrap(world)).ok
    /\ Unwrap(world).write
    /\ Unwrap(world).remove

\* The files of the stem of the input file among fs.
OfInputStem(fs) ==
    {f \in fs : f.stem = input_file(Unwrap(options), Unwrap(world)).val.stem}

(***************************************************************************)
(* C29: in the latexmk pass with save_temps = false, once the input file   *)
(* has been written it is removed, with the other files of its stem,       *)
(* before the pass returns, whatever the outcome: success, failure to      *)
(* launch latexmk or to wait for it, or failure to read the PDF; with      *)
(* save_temps = true no file is removed.                                   *)
(* Refuted by the code: the failures to launch and to wait return through  *)
(* `?` before the cleanup is reached, and the input file stays.            *)
(***************************************************************************)
C29_TemporaryFilesAreRemoved ==
    LatexmkWrote =>
        IF Unwrap(options).save_temps
        THEN /\ Unwrap(world).files \subseteq Unwrap(applied_with).files
             /\ OfInputStem(Unwrap(applied_with).files) # {}
        ELSE OfInputStem(Unwrap(applied_with).files) = {}

(***************************************************************************)
(* Keys written on several lines.                                          *)
(***************************************************************************)
ReadKeys == {"type", "lang", "title", "date", "duration", "speakers"}

\* A line of the header that sets a key the parser reads and is followed by
\* another line of that key.
Overwritten(lines, i) ==
    /\ lines[i].field \in ReadKeys
    /\ \E j \in (i + 1)..Len(lines) : lines[j].field = lines[i].field

\* The lines from number i on, without those that a later line overwrites.
RECURSIVE LastOnly(_, _)
LastOnly(lines, i) ==
    IF i > Len(lines) THEN << >>
    ELSE (IF Overwritten(lines, i) THEN << >> ELSE <<lines[i]>>)
         \o LastOnly(lines, i + 1)

\* C30: when the header writes a key on several lines, only the value of
\* the last of them is used: the block parses to the outcome of the block
\* without the earlier lines of that key, whose values are not validated;
\* a malformed `date` line followed by a well-formed one gives an Event
\* with the later date.
C30_LastValueOfAKeyCounts ==
    (Parsed /\ \E i \in 1..Len(HeaderWritten) : Overwritten(HeaderWritten, i)) =>
        /\ parsed[1] = Event_from_str(TextOf(LastOnly(HeaderWritten, 1) \o AfterHeader))
        /\ (AllPairs /\ ~TypeInvalid /\ Has("date") /\ Last("date").good
              /\ Has("duration") /\ Last("duration").good)
              => (parsed[1].ok /\ parsed[1].val.start_date = Last("date").at)

\* `date: 06/11/2023`, then a well-formed date and duration: the Event
\* starts on 2023-11-06 at 09:00.
C30_Witness ==
    /\ Parsed
    /\ Len(HeaderWritten) = 3
    /\ HeaderWritten[1] = LineDateBad
    /\ HeaderWritten[2] = LineDate1
    /\ parsed[1].ok
    /\ parsed[1].val.start_date = DateTime(2023, 11, 6, 9, 0)

====
